---- MODULE Spec2Model ----
(***************************************************************************)
(* Model of the CAR-based timestamped backup / restore engine of          *)
(* orbitdb-storacha-bridge (lib/backup-car.js): backupDatabaseCAR,        *)
(* listAvailableBackups and restoreFromSpaceCAR, with the remote space,   *)
(* the block network, the HTTP gateways and the database engine as the    *)
(* environment; and of the retry harness (lib/retry.js): isRetryableError, *)
(* calculateBackoffDelay and retryWithBackoff.                             *)
(***************************************************************************)
EXTENDS Integers, Sequences, FiniteSets, TLC

VARIABLES
  op,              \* the operation that is running: "restore", "list", "backup", "roundtrip", "retry"
  opts,            \* the options object passed by the caller
  world,           \* the environment: remote space, served bytes, availability of the read paths
  pc,              \* position inside the running operation
  backups,         \* listAvailableBackups: the `backups` array
  attempt,         \* listAvailableBackups: the `attempt` counter
  probes,          \* history: the checkFile calls of the scan pass, started and completed
  backupToRestore, \* restoreFromSpaceCAR: the resolved backup descriptor
  metadata,        \* restoreFromSpaceCAR: the metadata object in use
  carBytes,        \* restoreFromSpaceCAR: the downloaded CAR (its frames), or NoBytes
  fetches,         \* history: the gateway requests made for the CAR, with the response
  blocks,          \* restoreFromSpaceCAR: the Map returned by readBlocksFromCAR
  blockstore,      \* orbitdb.ipfs.blockstore of the target node
  logStorage,      \* database.log.storage of the target database
  db,              \* the database handle held by the restore
  heads,           \* restoreFromSpaceCAR: the `heads` array
  joins,           \* the joinEntry calls made so far, with their outcome
  restoredCount,   \* restoreFromSpaceCAR: `restoredCount`
  entriesCount,    \* restoreFromSpaceCAR: `entriesCount`
  poll,            \* restoreFromSpaceCAR: the clock and the counts of the poll loop
  bk,              \* backupDatabaseCAR: its local variables
  uploads,         \* the objects the remote store accepted, in upload order
  calls,           \* history: the collaborator calls of the run, in order
  faults,          \* number of injected collaborator faults so far
  events,          \* history: the statuses emitted on the event emitter, in order
  rt,              \* retryWithBackoff: its configuration, operation and local variables
  result           \* what the operation returned or threw

vars == <<op, opts, world, pc, backups, attempt, probes, backupToRestore, metadata,
          carBytes, fetches, blocks, blockstore, logStorage, db, heads, joins,
          restoredCount, entriesCount, poll, bk, uploads, calls, faults, events, rt, result>>

-----------------------------------------------------------------------------
(* Bounds of the model.                                                    *)

\* Number of log entries the source database can hold.
MaxEntries == 3

\* Number of collaborator faults (a put, an open, an unpack that throws)
\* injected before the heads are joined in one run.
MaxFaults == 1

\* Greatest number of operations handed to retryBatch.
MaxBatch == 2
\* options.timeout of the calls, in ms: half of it bounds the poll loop.
ShortTimeout == 200
LongTimeout == 2400

-----------------------------------------------------------------------------
(* CIDs, blocks and their string forms.                                    *)

\* cid.code of a dag-cbor block
DagCborCode == 113

Null == "null"

\* The bytes of a block: the serialisation of one of these contents.
ManifestBytes == [kind |-> "manifest", id |-> 0]
GarbageBytes == [kind |-> "garbage", id |-> 0]
EntryBytes(i) == [kind |-> "entry", id |-> i]

KindNo(k) ==
  CASE k = "manifest" -> 0
    [] k = "entry" -> 1
    [] OTHER -> 2

\* sha2-256 of the bytes, an injective digest over the bytes of the model.
Sha256(bytes) == KindNo(bytes.kind) * 100 + bytes.id + 1

\* The CID a block of these bytes has when it is written by the engine.
CidOf(bytes) == [code |-> DagCborCode, mh |-> Sha256(bytes)]

\* cid.toString(): CIDv1 in base32, multibase prefix "b".
ToBase32(cid) == <<"b", cid.code, cid.mh>>

\* cid.toV1().toString(base58btc): multibase prefix "z".
ToBase58btc(cid) == <<"z", cid.code, cid.mh>>

\* CID.parse(string): decodes either multibase form.
CIDparse(s) == [code |-> s[2], mh |-> s[3]]

\* The `next` field of log entry i: the base58btc CIDs of the entries it
\* follows. Entry 1 is the root of the log, the others fork and merge.
NextOf(i) ==
  IF i = 1 THEN << >>
  ELSE IF i % 3 = 1
    THEN <<ToBase58btc(CidOf(EntryBytes(i - 2))), ToBase58btc(CidOf(EntryBytes(i - 1)))>>
  ELSE IF i % 3 = 2
    THEN <<ToBase58btc(CidOf(EntryBytes(i - 1)))>>
  ELSE <<ToBase58btc(CidOf(EntryBytes(i - 2)))>>

\* Block.decode({cid, bytes, codec: dagCbor, hasher: sha256}).value, with
\* ok = FALSE where the decoder throws.
DagCborDecode(bytes) ==
  CASE bytes.kind = "entry" ->
         [ok |-> TRUE, sig |-> TRUE, key |-> TRUE, identity |-> TRUE,
          next |-> NextOf(bytes.id)]
    [] bytes.kind = "manifest" ->
         [ok |-> TRUE, sig |-> FALSE, key |-> FALSE, identity |-> FALSE,
          next |-> << >>]
    [] OTHER ->
         [ok |-> FALSE, sig |-> FALSE, key |-> FALSE, identity |-> FALSE,
          next |-> << >>]

Range(s) == {s[i] : i \in 1..Len(s)}

\* A JS Map of blocks, in insertion order: set() of a key already present
\* replaces the value and keeps the key's position.
MapHas(m, k) == \E i \in 1..Len(m) : m[i].key = k

MapSet(m, entry) ==
  IF MapHas(m, entry.key)
    THEN [i \in 1..Len(m) |-> IF m[i].key = entry.key THEN entry ELSE m[i]]
    ELSE Append(m, entry)

-----------------------------------------------------------------------------
(* CAR files.  A CAR is its sequence of frames (cid, bytes); `malformed`   *)
(* stands for a header or a frame the CAR reader cannot parse.             *)

Car(frames) == [malformed |-> FALSE, frames |-> frames]

MalformedCar == [malformed |-> TRUE, frames |-> << >>]

GenuineFrame(bytes) == [cid |-> CidOf(bytes), bytes |-> bytes]

RECURSIVE EntryFrames(_, _)
\* the frames of the log entries i..n that are in E, in ascending order
EntryFrames(i, E) ==
  IF i > MaxEntries THEN << >>
  ELSE (IF i \in E THEN <<GenuineFrame(EntryBytes(i))>> ELSE << >>) \o EntryFrames(i + 1, E)

\* The CAR a backup writes for a database holding the entries E.
GenuineCar(E) == Car(<<GenuineFrame(ManifestBytes)>> \o EntryFrames(1, E))

RECURSIVE ReadFrames(_, _)
ReadFrames(frames, acc) ==
  IF frames = << >> THEN acc
  ELSE ReadFrames(Tail(frames),
         MapSet(acc, [key |-> ToBase32(Head(frames).cid),
                      cid |-> Head(frames).cid,
                      bytes |-> Head(frames).bytes]))

\* readBlocksFromCAR: every frame the reader yields is set into the Map
\* under cid.toString(); the bytes are taken as delivered. (The caller
\* handles the reader's exception on a malformed CAR.)
readBlocksFromCAR(carData) == ReadFrames(carData.frames, << >>)

\* A CAR as a read path may deliver it: frame i carries other bytes.
Tampered(car, i, bytes) ==
  Car([j \in 1..Len(car.frames) |->
        IF j = i THEN [cid |-> car.frames[j].cid, bytes |-> bytes] ELSE car.frames[j]])

-----------------------------------------------------------------------------
(* The remote space.  Objects are retrieved by the CID the remote store    *)
(* assigned at upload; a backup is a metadata object and a CAR object.     *)

ObjCid(kind, n) == [name |-> kind, n |-> n]

NoCid == [name |-> "none", n |-> 0]

\* `backup-${timestamp}-metadata.json` / `backup-${timestamp}-blocks.car`
FileName(ts, suffix) == [name |-> suffix, n |-> ts]

DatabaseAddress == "/orbitdb/manifest"

\* The address of a second database of the same node.
OtherAddress == "/orbitdb/other"

\* The entries held by the source database at backup n: backup 1 is taken
\* after the first entry, backup 2 when the log is complete.
BackupEntries(n) == IF n = 1 THEN {1} ELSE 1..MaxEntries

\* The metadata object a backup builds (part_004 lines 224-247) for a
\* database holding the entries E, before carCID is added.
BuildMetadata(now, E, totalBlocks) ==
  [version |-> "1.0",
   timestamp |-> now,
   spaceName |-> "default",
   backupInfoSpaceName |-> Null,
   totalBlocks |-> totalBlocks,
   totalEntries |-> Cardinality(E),
   manifestCID |-> ToBase32(CidOf(ManifestBytes)),
   carCID |-> NoCid,
   address |-> DatabaseAddress,
   type |-> "events"]

\* Date.now() at backup n, in milliseconds: backup 2 is taken 1.5 s after
\* backup 1, backup 3 within the same second as backup 2, the others one
\* second apart.
BackupTime(n) ==
  IF n = 1 THEN 1000 ELSE IF n = 2 THEN 2500 ELSE IF n = 3 THEN 2900 ELSE n * 1000

\* The metadata document uploaded by backup n (JSON, parsed).
MetadataDoc(n) ==
  [BuildMetadata(BackupTime(n), BackupEntries(n), 1 + Cardinality(BackupEntries(n)))
     EXCEPT !.carCID = ObjCid("car", n)]

NoDoc ==
  [version |-> Null, timestamp |-> 0, spaceName |-> Null,
   backupInfoSpaceName |-> Null, totalBlocks |-> 0,
   totalEntries |-> 0, manifestCID |-> ToBase32(CidOf(GarbageBytes)),
   carCID |-> NoCid, address |-> Null, type |-> Null]

Backups == {1, 2}

\* The listings list_space() can return: root CIDs only, in store order.
Spaces ==
  { << >>,
    <<ObjCid("car", 1), ObjCid("metadata", 1)>>,
    <<ObjCid("car", 1), ObjCid("metadata", 1), ObjCid("car", 2), ObjCid("metadata", 2)>>,
    <<ObjCid("metadata", 2), ObjCid("car", 2), ObjCid("metadata", 1), ObjCid("car", 1)>> }

Stored(cid) == cid \in Range(world.space)

\* JSON objects of a space that no backup of this label wrote: the metadata
\* of a backup of another space, metadata written without spaceName,
\* metadata carrying backupInfo.spaceName, and JSON that is no metadata.
ForeignNames ==
  {"metadata.other", "metadata.nospace", "metadata.backupinfo", "json"}

ForeignDoc(cid) ==
  IF cid.name = "metadata.other"
    THEN [MetadataDoc(cid.n) EXCEPT !.spaceName = "other"]
  ELSE IF cid.name = "metadata.nospace"
    THEN [MetadataDoc(cid.n) EXCEPT !.spaceName = Null]
  ELSE IF cid.name = "metadata.backupinfo"
    THEN [MetadataDoc(cid.n) EXCEPT !.backupInfoSpaceName = "other"]
  ELSE [MetadataDoc(cid.n) EXCEPT !.version = Null]

\* The metadata document uploaded by backup n of the second database.
OtherDatabaseDoc(n) == [MetadataDoc(n) EXCEPT !.address = OtherAddress]

\* What a read path delivers for a stored object.
Served(cid) ==
  IF cid.name = "metadata"
    THEN [kind |-> "json", doc |-> MetadataDoc(cid.n), car |-> MalformedCar]
  ELSE IF cid.name = "empty"
    THEN [kind |-> "empty", doc |-> NoDoc, car |-> MalformedCar]
  ELSE IF cid.name = "metadata.otherdb"
    THEN [kind |-> "json", doc |-> OtherDatabaseDoc(cid.n), car |-> MalformedCar]
  ELSE IF cid.name \in ForeignNames
    THEN [kind |-> "json", doc |-> ForeignDoc(cid), car |-> MalformedCar]
    ELSE [kind |-> "car", doc |-> NoDoc, car |-> world.cars[cid.n]]

-----------------------------------------------------------------------------
(* Results of the public operations.                                       *)

NoResult ==
  [kind |-> "none", success |-> FALSE, method |-> Null, error |-> Null,
   list |-> << >>, entriesRecovered |-> 0, blocksRestored |-> 0,
   backupTimestamp |-> 0, databaseAddress |-> Null,
   metadataCID |-> NoCid, carCID |-> NoCid]

\* return { success: false, method: "car-timestamped", error: error.message }
Failure(message) ==
  [NoResult EXCEPT !.kind = "return", !.method = "car-timestamped", !.error = message]

\* the promise of the operation rejects with this error
Thrown(message) == [NoResult EXCEPT !.kind = "throw", !.error = message]

\* Error messages of the code; the text after a colon (the cause) is left out.
ErrNoBackup == "No valid CAR backup found in space"
ErrMetadataNoFallback ==
  "Failed to download metadata from IPFS network and gateway fallback is disabled"
ErrCarNoFallback ==
  "Failed to download CAR file from IPFS network and gateway fallback is disabled"
ErrMetadataGateway == "Failed to download metadata"
ErrInvalidMetadata == "Invalid backup metadata"
ErrNoCarCid == "CAR file CID not found in metadata or backup info"
ErrCarGateways == "Could not download CAR file from any gateway"
ErrRemoteList == "Failed to list space files"
ErrCarReader == "Invalid CAR"
ErrOpen == "Failed to open database"
ErrCredentials ==
  "Storacha authentication required: provide storachaKey + storachaProof OR ucanClient"
ErrUpload == "Upload failed"
ErrExtract == "Failed to extract database blocks"

\* error contains "gateway fallback is disabled"
MentionsFallbackDisabled(message) ==
  message \in {ErrMetadataNoFallback, ErrCarNoFallback}

-----------------------------------------------------------------------------
(* listAvailableBackups                                                    *)

\* const maxRetries = 5
ListMaxRetries == 5

\* const batchSize = 10
BatchSize == 10

\* if (backups.length >= 20) break
EnoughBackups == 20

\* config.spaceName || "default"
SpaceName == IF opts.spaceName = Null THEN "default" ELSE opts.spaceName

\* The backup timestamp as listed: the ISO string of the millisecond value
\* with the milliseconds cut off and ":" replaced by "-".  It is held as
\* its number of seconds; strings of this form compare as these numbers.
TimestampString(ms) == ms \div 1000

NoBackup == [found |-> FALSE, timestamp |-> 0, metadataCID |-> NoCid, metadata |-> NoDoc]

\* data.backupInfo?.spaceName || data.spaceName || "default"
MetadataSpaceName(data) ==
  IF data.backupInfoSpaceName # Null THEN data.backupInfoSpaceName
  ELSE IF data.spaceName # Null THEN data.spaceName
  ELSE "default"

\* Mutant of ViaNetwork: the block network is tried whatever useIPFSNetwork says.
ViaNetwork_IgnoresOption == opts.ipfs

\* if (config.useIPFSNetwork && config.ipfs): the guard of every download
\* over the block network (unixfs cat)
ViaNetwork == opts.useIPFSNetwork /\ opts.ipfs

\* checkFile probes the files of the space over the block network.
ProbesNetwork == ViaNetwork /\ Len(world.space) > 0

\* checkFile(file): the probe of one listed object.  null is NoBackup.
\* checkFile: downloadBlockFromIPFSNetwork returned the bytes of the object
NetworkDelivers(cid) == ViaNetwork /\ ~world.netDown /\ Stored(cid)

\* checkFile: `if (!text)` after the network attempt: no text was assigned,
\* or the text decoded from the bytes is the empty string.
TextMissing(cid) == ~NetworkDelivers(cid) \/ Served(cid).kind = "empty"

\* checkFile asks the gateways for the object: the network attempt did not
\* return early for want of a fallback, and left no text.
GatewayTried(cid) ==
  /\ ViaNetwork /\ ~NetworkDelivers(cid) => opts.gatewayFallback
  /\ TextMissing(cid)

\* checkFile obtained the bytes of the object, over the block network or
\* from a gateway.
Downloads(cid) ==
  LET gatewayOk == GatewayTried(cid) /\ ~world.gwDown /\ Stored(cid)
  IN NetworkDelivers(cid) \/ gatewayOk

CheckFile(cid) ==
  LET data == Served(cid).doc
  IN IF ~Downloads(cid) THEN NoBackup
     ELSE IF Served(cid).kind # "json" THEN NoBackup
     ELSE IF data.version = Null \/ data.timestamp = 0 \/ data.address = Null THEN NoBackup
     ELSE IF MetadataSpaceName(data) # SpaceName THEN NoBackup
     ELSE [found |-> TRUE, timestamp |-> TimestampString(data.timestamp),
           metadataCID |-> cid, metadata |-> data]

Min(a, b) == IF a < b THEN a ELSE b

RECURSIVE SelectFound(_)
SelectFound(results) ==
  IF results = << >> THEN << >>
  ELSE (IF Head(results).found THEN <<Head(results)>> ELSE << >>)
         \o SelectFound(Tail(results))

\* The orders in which the probes of a batch complete: in the order they
\* were started, or the last one first.
CompletionOrders == {"in-order", "reverse"}

\* The index of the probe that completes at position s of n.
CompletedAt(s, n, order) == IF order = "reverse" THEN n + 1 - s ELSE s

\* Mutant of PromiseAll: the results are collected as the probes complete.
PromiseAll_AsCompleted(batch, order) ==
  [s \in 1..Len(batch) |-> CheckFile(batch[CompletedAt(s, Len(batch), order)])]

\* await Promise.all(batch.map(checkFile)): every probe stores its value at
\* the index of its file, whenever it completes.
PromiseAll(batch, order) ==
  [k \in 1..Len(batch) |->
     LET s == CHOOSE s \in 1..Len(batch) : CompletedAt(s, Len(batch), order) = k
     IN CheckFile(batch[CompletedAt(s, Len(batch), order)])]

\* Mutant of Batch: every file from index i on goes into the batch.
Batch_Rest(spaceFiles, i) == SubSeq(spaceFiles, i + 1, Len(spaceFiles))

\* spaceFiles.slice(i, i + batchSize)
Batch(spaceFiles, i) ==
  SubSeq(spaceFiles, i + 1, Min(i + BatchSize, Len(spaceFiles)))

RECURSIVE ScanFrom(_, _, _, _)
\* for (let i = 0; i < spaceFiles.length; i += batchSize) { ... }
ScanFrom(spaceFiles, i, acc, order) ==
  IF i >= Len(spaceFiles) THEN acc
  ELSE LET batch == Batch(spaceFiles, i)
           results == PromiseAll(batch, order)
           found == acc \o SelectFound(results)
       IN IF Len(found) >= EnoughBackups THEN found
          ELSE ScanFrom(spaceFiles, i + BatchSize, found, order)

RECURSIVE ScannedFrom(_, _, _)
\* The objects the batches of one scan passed to checkFile.
ScannedFrom(spaceFiles, i, acc) ==
  IF i >= Len(spaceFiles) THEN {}
  ELSE LET batch == Batch(spaceFiles, i)
           results == [k \in 1..Len(batch) |-> CheckFile(batch[k])]
           found == acc \o SelectFound(results)
       IN Range(batch) \cup (IF Len(found) >= EnoughBackups THEN {}
                              ELSE ScannedFrom(spaceFiles, i + BatchSize, found))

\* A checkFile call being started or completed, `batch` the index i of the
\* batch it belongs to.
ProbeEvent(kind, file, batch) == [kind |-> kind, file |-> file, batch |-> batch]

\* batch.map(checkFile) calls checkFile for the files in order, each call
\* running up to its first await; Promise.all resolves when the last call
\* has completed.
BatchProbes(batch, i, order) ==
  [k \in 1..Len(batch) |-> ProbeEvent("start", batch[k], i)]
    \o [s \in 1..Len(batch) |->
          ProbeEvent("end", batch[CompletedAt(s, Len(batch), order)], i)]

RECURSIVE ProbesFrom(_, _, _, _)
\* The checkFile calls of one scan, as started and completed.
ProbesFrom(spaceFiles, i, acc, order) ==
  IF i >= Len(spaceFiles) THEN << >>
  ELSE LET batch == Batch(spaceFiles, i)
           found == acc \o SelectFound(PromiseAll(batch, order))
       IN BatchProbes(batch, i, order)
            \o (IF Len(found) >= EnoughBackups THEN << >>
                  ELSE ProbesFrom(spaceFiles, i + BatchSize, found, order))

\* The scan asked the gateways for an object.
ProbesGateway ==
  \E cid \in ScannedFrom(world.space, 0, << >>) : GatewayTried(cid)

\* The scan downloaded the bytes of a CAR object to sniff them.
ScanDownloadsCar ==
  \E cid \in ScannedFrom(world.space, 0, << >>) :
     Downloads(cid) /\ Served(cid).kind = "car"

\* Mutant of InsertDesc: the list is returned in the order of the scan.
InsertDesc_Unsorted(sorted, b) == Append(sorted, b)

RECURSIVE InsertDesc(_, _)
\* b is placed after every element that does not compare after it (stable)
InsertDesc(sorted, b) ==
  IF sorted = << >> THEN <<b>>
  ELSE IF Head(sorted).timestamp >= b.timestamp
    THEN <<Head(sorted)>> \o InsertDesc(Tail(sorted), b)
    ELSE <<b>> \o sorted

RECURSIVE SortNewestFirst(_)
\* backups.sort((a, b) => b.timestamp.localeCompare(a.timestamp))
SortNewestFirst(list) ==
  IF list = << >> THEN << >>
  ELSE InsertDesc(SortNewestFirst(SubSeq(list, 1, Len(list) - 1)), list[Len(list)])

-----------------------------------------------------------------------------
(* Frame conditions.                                                       *)

listVars == <<backups, attempt, probes>>

restoreVars == <<backupToRestore, metadata, carBytes, fetches, blocks, blockstore,
                 logStorage, db, heads, joins, restoredCount, entriesCount, poll>>

backupVars == <<bk, uploads>>

envVars == <<op, opts, world>>

-----------------------------------------------------------------------------
(* Progress events.  backupDatabaseCAR and restoreFromSpaceCAR emit a      *)
(* status on options.eventEmitter between their steps.                     *)

\* Mutant of TerminalStatus: the run always reports `completed`.
TerminalStatus_AlwaysCompleted(res) == "completed"

\* The status emitted last: `completed` before the success object is
\* returned, `error` in the catch block before the failure object is.
TerminalStatus(res) == IF res.success THEN "completed" ELSE "error"

\* The statuses emitted by the step that leads operation `o` from position
\* `from` to position `to` and leaves the result `res`.
EmittedBy(o, from, to, res) ==
  (IF o = "restore" /\ from \in {"r_start", "r_listed"} /\ to = "r_metadata"
     THEN <<"found">> ELSE << >>)
  \o (IF o = "restore" /\ from = "r_metadata" /\ to = "r_car"
        THEN <<"downloading-blocks">> ELSE << >>)
  \o (IF o = "restore" /\ from = "r_unpack" /\ to = "r_blocks"
        THEN <<"restoring-blocks">> ELSE << >>)
  \o (IF o = "backup" /\ from = "b_pack" THEN <<"creating">> ELSE << >>)
  \o (IF o = "backup" /\ from = "b_upload_car" THEN <<"uploading-blocks">> ELSE << >>)
  \o (IF o = "backup" /\ from = "b_upload_metadata"
        THEN <<"uploading-metadata">> ELSE << >>)
  \o (IF o \in {"backup", "restore"} /\ to = "done"
        THEN <<TerminalStatus(res)>> ELSE << >>)

\* if (eventEmitter) eventEmitter.emit(...): the statuses of the step taken
\* are appended to the history.
Progress ==
  events' = IF opts.eventEmitter
              THEN events \o EmittedBy(op, pc, pc', result')
              ELSE events

-----------------------------------------------------------------------------
(* listAvailableBackups, step by step.  It runs on its own (op = "list")   *)
(* or as the first step of a restore (op = "restore").                     *)

\* listStorachaSpaceFiles(config): the credential check and the remote
\* listing answer (TRUE), or fail with MissingCredentials / RemoteListFailed.
listStorachaSpaceFiles == BOOLEAN

\* const spaceFiles = await listStorachaSpaceFiles(config); the call is
\* outside any try block.
ListSpaceFiles ==
  /\ pc = "l_files"
  /\ calls' = Append(calls, "list_space")
  /\ \E ok \in listStorachaSpaceFiles :
       IF ok
         THEN pc' = "l_pass" /\ UNCHANGED result
         ELSE /\ pc' = "done"
              /\ result' = IF op = "list" THEN Thrown(ErrRemoteList) ELSE Failure(ErrRemoteList)
  /\ attempt' = 0
  /\ backups' = << >>
  /\ probes' = << >>
  /\ UNCHANGED <<envVars, rt, restoreVars, backupVars, faults>>
  /\ Progress

\* await new Promise((resolve) => setTimeout(resolve, retryDelay)), with
\* retryDelay = 5000
RetryPause == "sleep:5000"

\* One iteration of `while (attempt < maxRetries)`: the pause before a
\* retry and a scan of the space.
ListPass ==
  /\ pc = "l_pass"
  /\ attempt < ListMaxRetries
  /\ attempt' = attempt + 1
  /\ \E order \in CompletionOrders :
       /\ backups' = ScanFrom(world.space, 0, << >>, order)
       /\ probes' = ProbesFrom(world.space, 0, << >>, order)
  /\ pc' = IF Len(backups') > 0 \/ attempt' >= ListMaxRetries THEN "l_sort" ELSE "l_pass"
  /\ calls' = calls \o (IF attempt' > 1 THEN <<RetryPause>> ELSE << >>)
                    \o <<"scan">>
                    \o (IF ProbesNetwork THEN <<"network:probe">> ELSE << >>)
                    \o (IF ProbesGateway THEN <<"gateway:probe">> ELSE << >>)
                    \o (IF ScanDownloadsCar THEN <<"scan:car">> ELSE << >>)
  /\ UNCHANGED <<envVars, rt, restoreVars, backupVars, faults, result>>
  /\ Progress

\* backups.sort(...); return backups
ListReturn ==
  /\ pc = "l_sort"
  /\ backups' = SortNewestFirst(backups)
  /\ probes' = << >>
  /\ IF op = "list"
       THEN /\ pc' = "done"
            /\ result' = [NoResult EXCEPT !.kind = "return", !.list = backups']
       ELSE pc' = "r_listed" /\ UNCHANGED result
  /\ UNCHANGED <<envVars, rt, attempt, restoreVars, backupVars, calls, faults>>
  /\ Progress

-----------------------------------------------------------------------------
(* restoreFromSpaceCAR, step by step.  Every step runs inside the try      *)
(* block: an exception ends the run with the failure object of the catch.  *)

NoDescriptor ==
  [metadata |-> [isObject |-> FALSE, doc |-> NoDoc, name |-> NoCid],
   blocks |-> NoCid, timestamp |-> 0, metadataCID |-> NoCid]

NoCar == [got |-> FALSE, car |-> MalformedCar]

NoDb == [state |-> "none", handle |-> 0, address |-> Null]

\* throw inside the try block of restoreFromSpaceCAR
RestoreFails(message) ==
  /\ pc' = "done"
  /\ result' = Failure(message)

\* The outcomes a download of `cid` over the block network can have.
NetworkOutcomes(cid) ==
  IF world.netDown \/ ~Stored(cid) THEN {FALSE} ELSE BOOLEAN

\* The outcomes a download of `cid` over the HTTP gateways can have.
GatewayOutcomes(cid) ==
  IF world.gwDown \/ ~Stored(cid) THEN {FALSE} ELSE BOOLEAN

\* Step 1, explicit timestamp or the latest backup of the index.
RestoreStart ==
  /\ pc = "r_start"
  /\ IF opts.timestamp # 0
       THEN /\ backupToRestore' =
                 [metadata |-> [isObject |-> FALSE, doc |-> NoDoc,
                                name |-> FileName(opts.timestamp, "metadata.json")],
                  blocks |-> FileName(opts.timestamp, "blocks.car"),
                  timestamp |-> opts.timestamp,
                  metadataCID |-> NoCid]
            /\ pc' = "r_metadata"
       ELSE /\ pc' = "l_files"
            /\ UNCHANGED backupToRestore
  /\ UNCHANGED <<envVars, rt, listVars, metadata, carBytes, fetches, blocks, blockstore,
                 logStorage, db, heads, joins, restoredCount, entriesCount, poll,
                 backupVars, calls, faults, result>>
  /\ Progress

\* Step 1, after listAvailableBackups has returned.
\* Mutant of RestoreListed: the list is not checked for emptiness, and
\* reading the timestamp of availableBackups[0] throws.
RestoreListed_Unchecked ==
  /\ pc = "r_listed"
  /\ IF Len(backups) = 0
       THEN RestoreFails("Cannot read properties of undefined")
            /\ UNCHANGED backupToRestore
       ELSE /\ backupToRestore' =
                 [metadata |-> [isObject |-> TRUE, doc |-> backups[1].metadata,
                                name |-> NoCid],
                  blocks |-> NoCid,
                  timestamp |-> backups[1].timestamp,
                  metadataCID |-> backups[1].metadataCID]
            /\ pc' = "r_metadata"
            /\ UNCHANGED result
  /\ UNCHANGED <<envVars, rt, listVars, metadata, carBytes, fetches, blocks, blockstore,
                 logStorage, db, heads, joins, restoredCount, entriesCount, poll,
                 backupVars, calls, faults>>
  /\ Progress

RestoreListed ==
  /\ pc = "r_listed"
  /\ IF Len(backups) = 0
       THEN RestoreFails(ErrNoBackup) /\ UNCHANGED backupToRestore
       ELSE /\ backupToRestore' =
                 [metadata |-> [isObject |-> TRUE, doc |-> backups[1].metadata,
                                name |-> NoCid],
                  blocks |-> NoCid,
                  timestamp |-> backups[1].timestamp,
                  metadataCID |-> backups[1].metadataCID]
            /\ pc' = "r_metadata"
            /\ UNCHANGED result
  /\ UNCHANGED <<envVars, rt, listVars, metadata, carBytes, fetches, blocks, blockstore,
                 logStorage, db, heads, joins, restoredCount, entriesCount, poll,
                 backupVars, calls, faults>>
  /\ Progress

\* options.metadataCID || backupToRestore.metadataCID || backupToRestore.metadata
MetadataCidToDownload ==
  IF opts.metadataCID # NoCid THEN opts.metadataCID
  ELSE IF backupToRestore.metadataCID # NoCid THEN backupToRestore.metadataCID
  ELSE backupToRestore.metadata.name

\* isValidMetadata(metadata)
isValidMetadata(doc) ==
  /\ doc.version # Null
  /\ doc.timestamp # 0
  /\ doc.address # Null

\* JSON.parse of what was delivered for `cid`: a document, or a throw
JsonOk(cid) == Served(cid).kind = "json"

\* Step 2: the cached metadata object, or a download by CID or file name.
RestoreMetadata ==
  /\ pc = "r_metadata"
  /\ IF backupToRestore.metadata.isObject
       THEN /\ metadata' = backupToRestore.metadata.doc
            /\ calls' = Append(calls, "metadata")
            /\ IF isValidMetadata(metadata')
                 THEN pc' = "r_car" /\ UNCHANGED result
                 ELSE RestoreFails(ErrInvalidMetadata)
       ELSE LET cid == MetadataCidToDownload
                viaNetwork == ViaNetwork
            IN \E net \in (IF viaNetwork THEN NetworkOutcomes(cid) ELSE {FALSE}),
                  gw \in GatewayOutcomes(cid) :
                 LET netOk == net /\ JsonOk(cid)
                     gwTried == ~netOk /\ (~viaNetwork \/ opts.gatewayFallback)
                     gwOk == gwTried /\ gw /\ JsonOk(cid)
                 IN /\ calls' = calls
                          \o (IF viaNetwork THEN <<"network:metadata">> ELSE << >>)
                          \o (IF gwTried THEN <<"gateway:metadata">> ELSE << >>)
                          \o <<"metadata">>
                    /\ IF netOk \/ gwOk
                         THEN /\ metadata' = Served(cid).doc
                              /\ IF isValidMetadata(metadata')
                                   THEN pc' = "r_car" /\ UNCHANGED result
                                   ELSE RestoreFails(ErrInvalidMetadata)
                         ELSE /\ UNCHANGED metadata
                              /\ IF gwTried
                                   THEN RestoreFails(ErrMetadataGateway)
                                   ELSE RestoreFails(ErrMetadataNoFallback)
  /\ UNCHANGED <<envVars, rt, listVars, backupToRestore, carBytes, fetches, blocks, blockstore,
                 logStorage, db, heads, joins, restoredCount, entriesCount, poll,
                 backupVars, faults>>
  /\ Progress

\* metadata.carCID || options.carCID || backupToRestore.blocks
CarCidToDownload ==
  IF metadata.carCID # NoCid THEN metadata.carCID ELSE backupToRestore.blocks

\* const gateways = [`${config.gateway}/ipfs`, "https://storacha.link/ipfs",
\*                   "https://dweb.link/ipfs", "https://ipfs.io/ipfs"]
Gateways == <<"config.gateway", "storacha.link", "dweb.link", "ipfs.io">>

\* const maxAttempts = 3
GatewayMaxAttempts == 3

\* if (carBytes.length < 11)
MinCarLength == 11

\* The body of a response: how its text starts, its length in bytes, and
\* whether it is the bytes of the stored object.
Body(starts, length, stored) ==
  [starts |-> starts, length |-> length, stored |-> stored]

\* What fetch(carUrl) resolves to: status, Content-Type header and body.
Response(status, contentType, body) ==
  [threw |-> FALSE, status |-> status, contentType |-> contentType, body |-> body]

\* fetch(carUrl) rejects (connection refused, DNS failure, ...)
FetchThrew ==
  [threw |-> TRUE, status |-> 0, contentType |-> "", body |-> Body("", 0, FALSE)]

\* carResponse.ok
ResponseOk(r) == r.status \in 200..299

\* contentType.includes("text/html") || contentType.includes("application/xhtml")
IsHtmlContentType(contentType) ==
  contentType \in {"text/html", "text/html; charset=utf-8", "application/xhtml+xml"}

\* Mutant of LooksLikeMarkup: only a document type declaration is taken for
\* an error page.
LooksLikeMarkup_DoctypeOnly(body) == body.starts = "<!DOCTYPE"

\* textStart.trim().startsWith("<!DOCTYPE") || ... "<html" || ... "<?xml"
LooksLikeMarkup(body) == body.starts \in {"<!DOCTYPE", "<html", "<?xml"}

\* The CAR bytes of the object, as a gateway serves them.
CarBody == Body("car", 100, TRUE)

CarServed == Response(200, "application/vnd.ipld.car", CarBody)

\* Error pages and error statuses a gateway can answer with.
HtmlByContentType == Response(200, "text/html; charset=utf-8", Body("<!DOCTYPE", 100, FALSE))
HtmlTypeCarBody == Response(200, "text/html", CarBody)
XhtmlByContentType == Response(200, "application/xhtml+xml", Body("<?xml", 100, FALSE))
DoctypeBody == Response(200, "", Body("<!DOCTYPE", 100, FALSE))
HtmlBody == Response(206, "text/plain", Body("<html", 100, FALSE))
XmlBody == Response(200, "application/octet-stream", Body("<?xml", 100, FALSE))
ShortBody == Response(200, "application/vnd.ipld.car", Body("car", 10, FALSE))
ShortMarkup == Response(200, "", Body("<html", 6, FALSE))
OtherBody == Response(200, "application/json", Body("{", 100, FALSE))
NotFound == Response(404, "text/plain", Body("not found", 9, FALSE))
RateLimited == Response(429, "text/plain", Body("", 0, FALSE))

\* A gateway that answers every request the same way.
Always(r) == [a \in 1..GatewayMaxAttempts |-> r]

\* A 429 moves on to the next gateway like any other error status.
RateLimitRetried_Never(r, attempts) == FALSE

\* if (carResponse.status === 429 && attempts < maxAttempts - 1)
RateLimitRetried(r, attempts) ==
  r.status = 429 /\ attempts < GatewayMaxAttempts - 1

RECURSIVE GatewayLoop(_, _, _, _)
\* for (const gateway of gateways) {
\*   while (attempts < maxAttempts && !success) { ... } }
\* `script[g][a]` is what the a-th request to gateway g resolves to, `log`
\* the requests made so far.  The value is the body accepted as carBytes,
\* if any, and the requests made.
GatewayLoop(script, g, attempts, log) ==
  IF g > Len(Gateways)
    THEN [got |-> FALSE, body |-> Body("", 0, FALSE), fetches |-> log]
  ELSE IF attempts >= GatewayMaxAttempts
    THEN GatewayLoop(script, g + 1, 0, log)
  ELSE
    LET r == script[g][attempts + 1]
        made == Append(log, [gateway |-> g, attempt |-> attempts + 1, response |-> r])
    IN IF r.threw
         THEN GatewayLoop(script, g, attempts + 1, made)
       ELSE IF ResponseOk(r)
         THEN IF IsHtmlContentType(r.contentType) \/ LooksLikeMarkup(r.body)
                   \/ r.body.length < MinCarLength
                THEN GatewayLoop(script, g + 1, 0, made)
                ELSE [got |-> TRUE, body |-> r.body, fetches |-> made]
       ELSE IF RateLimitRetried(r, attempts)
         THEN GatewayLoop(script, g, attempts + 1, made)
       ELSE GatewayLoop(script, g + 1, 0, made)

\* What the gateways answer for `cid`: nothing when they are unreachable, 404
\* for an object they do not have, else what the world has them answer.
GatewayScript(cid, reachable) ==
  IF world.gwDown \/ (Stored(cid) /\ ~reachable)
    THEN [g \in 1..Len(Gateways) |-> Always(FetchThrew)]
  ELSE IF ~Stored(cid)
    THEN [g \in 1..Len(Gateways) |-> Always(NotFound)]
  ELSE world.gateways

\* Step 3: the CAR, over the block network first, then over the gateways.
RestoreDownloadCar ==
  /\ pc = "r_car"
  /\ LET cid == CarCidToDownload
         viaNetwork == ViaNetwork
     IN IF cid = NoCid
          THEN RestoreFails(ErrNoCarCid) /\ UNCHANGED <<carBytes, fetches, calls>>
          ELSE \E net \in (IF viaNetwork THEN NetworkOutcomes(cid) ELSE {FALSE}),
                  gw \in GatewayOutcomes(cid) :
                 LET gwTried == ~net /\ (~viaNetwork \/ opts.gatewayFallback)
                     loop == GatewayLoop(GatewayScript(cid, gw), 1, 0, << >>)
                     gwOk == gwTried /\ loop.got
                 IN /\ calls' = calls
                          \o (IF viaNetwork THEN <<"network:car">> ELSE << >>)
                          \o (IF gwTried THEN <<"gateway:car">> ELSE << >>)
                          \o (IF net \/ gwOk THEN <<"car">> ELSE << >>)
                    /\ fetches' = IF gwTried THEN loop.fetches ELSE << >>
                    /\ IF net \/ gwOk
                         THEN /\ carBytes' =
                                   [got |-> TRUE,
                                    car |-> IF net \/ loop.body.stored
                                              THEN Served(cid).car ELSE MalformedCar]
                              /\ pc' = "r_unpack"
                              /\ UNCHANGED result
                         ELSE /\ UNCHANGED carBytes
                              /\ IF gwTried
                                   THEN RestoreFails(ErrCarGateways)
                                   ELSE RestoreFails(ErrCarNoFallback)
  /\ UNCHANGED <<envVars, rt, listVars, backupToRestore, metadata, blocks, blockstore,
                 logStorage, db, heads, joins, restoredCount, entriesCount, poll,
                 backupVars, faults>>
  /\ Progress

\* Step 4: const blocks = await readBlocksFromCAR(carBytes)
RestoreUnpack ==
  /\ pc = "r_unpack"
  /\ calls' = Append(calls, "unpack")
  /\ IF carBytes.car.malformed
       THEN RestoreFails(ErrCarReader) /\ UNCHANGED blocks
       ELSE /\ blocks' = readBlocksFromCAR(carBytes.car)
            /\ pc' = "r_blocks"
            /\ UNCHANGED result
  /\ UNCHANGED <<envVars, rt, listVars, backupToRestore, metadata, carBytes, fetches, blockstore,
                 logStorage, db, heads, joins, restoredCount, entriesCount, poll,
                 backupVars, faults>>
  /\ Progress

\* store.put(key, bytes)
Put(store, key, bytes) ==
  {e \in store : e.key # key} \cup {[key |-> key, bytes |-> bytes]}

\* Mutant of LogStorageKey: the log storage is keyed by the Map key as it
\* is, in base32.
LogStorageKey_Base32(cidString) == cidString

\* cid.toV1().toString(base58btc) of the Map key
LogStorageKey(cidString) == ToBase58btc(CIDparse(cidString))

RECURSIVE BlockstorePutAll(_, _, _)
\* for (const [cidString, blockData] of blocks.entries()):
\*   await orbitdb.ipfs.blockstore.put(CID.parse(cidString), blockData.bytes)
\* A put that throws (a block of `failed`) is caught and the loop goes on.
BlockstorePutAll(store, m, failed) ==
  IF m = << >> THEN store
  ELSE BlockstorePutAll(IF Head(m).key \in failed THEN store
                        ELSE Put(store, CIDparse(Head(m).key), Head(m).bytes),
                        Tail(m), failed)

RECURSIVE LogStoragePutAll(_, _, _)
\* for (const [cidString, blockData] of blocks.entries()):
\*   await database.log.storage.put(cidBase58btc, blockData.bytes)
LogStoragePutAll(store, m, failed) ==
  IF m = << >> THEN store
  ELSE LogStoragePutAll(IF Head(m).key \in failed THEN store
                        ELSE Put(store, LogStorageKey(Head(m).key), Head(m).bytes),
                        Tail(m), failed)

\* The sets of blocks whose put may throw in one loop.
FailSets(m) ==
  {F \in SUBSET {m[i].key : i \in 1..Len(m)} : Cardinality(F) <= MaxFaults - faults}

\* Step 5: every block into orbitdb.ipfs.blockstore under CID.parse(cidString).
RestoreBlocks ==
  /\ pc = "r_blocks"
  /\ \E failed \in FailSets(blocks) :
       /\ blockstore' = BlockstorePutAll(blockstore, blocks, failed)
       /\ restoredCount' = Len(blocks) - Cardinality(failed)
       /\ faults' = faults + Cardinality(failed)
  /\ calls' = Append(calls, "blockstore.put")
  /\ pc' = "r_open"
  /\ UNCHANGED <<envVars, rt, listVars, backupToRestore, metadata, carBytes, fetches, blocks,
                 logStorage, db, heads, joins, entriesCount, poll, backupVars, result>>
  /\ Progress

\* Mutant of AddressToOpen: the address is configured, not read from the backup.
AddressToOpen_Configured(doc) == DatabaseAddress

\* const dbInfo = metadata.databases[0]; const databaseAddress = dbInfo.address
AddressToOpen(doc) == doc.address

\* Step 6: const database = await orbitdb.open(databaseAddress, { type })
RestoreOpen ==
  /\ pc = "r_open"
  /\ calls' = Append(calls, "open")
  /\ \E ok \in (IF faults < MaxFaults THEN BOOLEAN ELSE {TRUE}) :
       IF ok
         THEN /\ db' = [state |-> "open", handle |-> 1, address |-> AddressToOpen(metadata)]
              /\ pc' = "r_logstorage"
              /\ UNCHANGED <<result, faults>>
         ELSE /\ RestoreFails(ErrOpen)
              /\ faults' = faults + 1
              /\ UNCHANGED db
  /\ UNCHANGED <<envVars, rt, listVars, backupToRestore, metadata, carBytes, fetches, blocks,
                 blockstore, logStorage, heads, joins, restoredCount, entriesCount, poll,
                 backupVars>>
  /\ Progress

\* Step 6, second half: every block into database.log.storage.
RestoreLogStorage ==
  /\ pc = "r_logstorage"
  /\ \E failed \in FailSets(blocks) :
       /\ logStorage' = LogStoragePutAll(logStorage, blocks, failed)
       /\ faults' = faults + Cardinality(failed)
  /\ calls' = Append(calls, "log.storage.put")
  /\ pc' = "r_reopen"
  /\ UNCHANGED <<envVars, rt, listVars, backupToRestore, metadata, carBytes, fetches, blocks,
                 blockstore, db, heads, joins, restoredCount, entriesCount, poll,
                 backupVars, result>>
  /\ Progress

\* Mutant of RestoreReopen: the heads are joined on the handle opened first,
\* without close and reopen.
RestoreReopen_Skipped ==
  /\ pc = "r_reopen"
  /\ pc' = "r_heads"
  /\ UNCHANGED <<envVars, rt, listVars, restoreVars, backupVars, calls, faults, result>>
  /\ Progress

\* await database.close(); const reopenedDatabase = await orbitdb.open(...)
RestoreReopen ==
  /\ pc = "r_reopen"
  /\ \E ok \in (IF faults < MaxFaults THEN BOOLEAN ELSE {TRUE}) :
       IF ok
         THEN /\ db' = [state |-> "open", handle |-> 2, address |-> AddressToOpen(metadata)]
              /\ pc' = "r_heads"
              /\ UNCHANGED <<result, faults>>
         ELSE /\ RestoreFails(ErrOpen)
              /\ faults' = faults + 1
              /\ db' = [db EXCEPT !.state = "closed"]
  /\ calls' = calls \o <<"close", "open">>
  /\ UNCHANGED <<envVars, rt, listVars, backupToRestore, metadata, carBytes, fetches, blocks,
                 blockstore, logStorage, heads, joins, restoredCount, entriesCount, poll,
                 backupVars>>
  /\ Progress

\* content && content.sig && content.key && content.identity, for a block
\* whose CID has the dag-cbor code and whose bytes decode
IsLogEntryBlock(b) ==
  /\ CIDparse(b.key).code = DagCborCode
  /\ DagCborDecode(b.bytes).ok
  /\ DagCborDecode(b.bytes).sig
  /\ DagCborDecode(b.bytes).key
  /\ DagCborDecode(b.bytes).identity

RECURSIVE LogEntriesOf(_)
\* logEntries.push({ cid: cidBase58btc, content }), in Map order
LogEntriesOf(m) ==
  IF m = << >> THEN << >>
  ELSE (IF IsLogEntryBlock(Head(m))
          THEN <<[cid |-> ToBase58btc(CIDparse(Head(m).key)),
                  content |-> DagCborDecode(Head(m).bytes)]>>
          ELSE << >>)
       \o LogEntriesOf(Tail(m))

\* Mutant of LogChainKeys: the references are recorded in base32, the form
\* of the Map keys, and never match the base58btc CID of an entry.
LogChainKeys_Base32(logEntries) ==
  UNION {{ToBase32(CIDparse(h)) : h \in Range(logEntries[i].content.next)} :
           i \in 1..Len(logEntries)}

\* The keys of logChain: logChain.set(nextHash, cidBase58btc) for every
\* nextHash of content.next of every log entry.
LogChainKeys(logEntries) ==
  UNION {Range(logEntries[i].content.next) : i \in 1..Len(logEntries)}

RECURSIVE FilterHeads(_, _)
FilterHeads(logEntries, chain) ==
  IF logEntries = << >> THEN << >>
  ELSE (IF Head(logEntries).cid \in chain THEN << >> ELSE <<Head(logEntries)>>)
       \o FilterHeads(Tail(logEntries), chain)

\* const heads = logEntries.filter((entry) => !logChain.has(entry.cid))
HeadsOf(m) == FilterHeads(LogEntriesOf(m), LogChainKeys(LogEntriesOf(m)))

\* Step 7, first half: decode the blocks and find the heads.
RestoreHeads ==
  /\ pc = "r_heads"
  /\ heads' = HeadsOf(blocks)
  /\ calls' = Append(calls, "heads")
  /\ pc' = "r_join"
  /\ UNCHANGED <<envVars, rt, listVars, backupToRestore, metadata, carBytes, fetches, blocks,
                 blockstore, logStorage, db, joins, restoredCount, entriesCount, poll,
                 backupVars, faults, result>>
  /\ Progress

\* What reopenedDatabase.log.joinEntry(entryData) can do: return true,
\* return false, or throw.
JoinOutcomes == {"joined", "refused", "threw"}

\* Step 7, second half: for (const head of heads) joinEntry; an exception
\* is caught per head.
RestoreJoin ==
  /\ pc = "r_join"
  /\ \E outcome \in [1..Len(heads) -> JoinOutcomes] :
       joins' = [i \in 1..Len(heads) |->
                  [hash |-> heads[i].cid, next |-> heads[i].content.next,
                   handle |-> db.handle, outcome |-> outcome[i]]]
  /\ calls' = Append(calls, "joinEntry")
  /\ pc' = "r_poll"
  /\ UNCHANGED <<envVars, rt, listVars, backupToRestore, metadata, carBytes, fetches, blocks,
                 blockstore, logStorage, db, heads, restoredCount, entriesCount, poll,
                 backupVars, faults, result>>
  /\ Progress

\* The log entry the engine reads from the log storage under `hash`.
StoredNext(hash) ==
  UNION {Range(DagCborDecode(e.bytes).next) :
           e \in {x \in logStorage : x.key = hash /\ DagCborDecode(x.bytes).sig}}

InLogStorage(hash) ==
  \E e \in logStorage : e.key = hash /\ DagCborDecode(e.bytes).sig

RECURSIVE Traverse(_)
\* The engine walks back from the joined heads through `next`, loading
\* the entries it finds in the log storage.
Traverse(S) ==
  LET more == {h \in UNION {StoredNext(x) : x \in S} : InLogStorage(h)}
  IN IF more \subseteq S THEN S ELSE Traverse(S \cup more)

\* The entries database.all() returns once the log is loaded.
Loaded ==
  Traverse({joins[i].hash : i \in {k \in 1..Len(joins) :
              joins[k].outcome = "joined" /\ InLogStorage(joins[k].hash)}})
    \cup {joins[i].hash : i \in {k \in 1..Len(joins) : joins[k].outcome = "joined"}}

\* The poll and the final check: the count read last is what the engine has
\* loaded when the poll ends (at the expected count, at a stable count or
\* at timeout / 2).
\* The poll loop: the time elapsed since startTime, the time and the value
\* of the count read last, the time at which that value was first read,
\* previousCount, and the number of passes through the loop.
NoPoll ==
  [elapsed |-> 0, count |-> 0, readAt |-> 0, since |-> 0, previousCount |-> -1,
   passes |-> 0]

\* const maxWaitTime = config.timeout / 2
MaxWaitTime(config) == config.timeout \div 2

\* const expectedEntries = metadata.totalEntries || dbInfo.entryCount; both
\* fields carry the count of the backup.
ExpectedEntries(doc) == doc.totalEntries

\* setTimeout(resolve, 100) at the end of a pass
PollIntervalMs == 100

\* setTimeout(resolve, 1000) before the final check of a stable count
StableWaitMs == 1000

\* await new Promise((resolve) => setTimeout(resolve, ms))
Elapse(state, ms) == [state EXCEPT !.elapsed = @ + ms]

\* await reopenedDatabase.all(): the count the engine has loaded by now
ReadCount(state, count) ==
  [state EXCEPT !.count = count,
                !.readAt = state.elapsed,
                !.since = IF count = state.count THEN @ ELSE state.elapsed]

\* if (entriesCount > 0 && entriesCount === previousCount)
Stabilising(count, previousCount) == count > 0 /\ count = previousCount

\* previousCount = entriesCount; the pause; back to the loop condition
PollGoesOn(state) ==
  /\ poll' = Elapse(state, PollIntervalMs)
  /\ pc' = "r_poll"
  /\ UNCHANGED <<entriesCount, calls>>

\* break, or the loop condition fails; then the final check
PollEnds(state) ==
  /\ poll' = state
  /\ \E count \in state.count..Cardinality(Loaded) : entriesCount' = count
  /\ calls' = Append(calls, "poll")
  /\ pc' = "r_return"

RestorePoll ==
  /\ pc = "r_poll"
  /\ IF ~(poll.elapsed < MaxWaitTime(opts))
       THEN PollEnds(poll)
       ELSE \E count \in poll.count..Cardinality(Loaded) :
              LET read == ReadCount([poll EXCEPT !.passes = @ + 1], count)
              IN IF count >= ExpectedEntries(metadata)
                   THEN PollEnds(read)
                 ELSE IF Stabilising(count, poll.previousCount)
                   THEN \E finalCount \in count..Cardinality(Loaded) :
                          LET checked == ReadCount(Elapse(read, StableWaitMs), finalCount)
                          IN IF finalCount = count
                               THEN PollEnds(checked)
                               ELSE PollGoesOn([checked EXCEPT !.previousCount = count])
                 ELSE PollGoesOn([read EXCEPT !.previousCount = count])
  /\ UNCHANGED <<envVars, rt, listVars, backupToRestore, metadata, carBytes, fetches, blocks,
                 blockstore, logStorage, db, heads, joins, restoredCount,
                 backupVars, faults, result>>
  /\ Progress

\* return { success: true, method: "car-timestamped", ... }
RestoreReturn ==
  /\ pc = "r_return"
  /\ result' = [NoResult EXCEPT !.kind = "return", !.success = TRUE,
                                !.method = "car-timestamped",
                                !.databaseAddress = AddressToOpen(metadata),
                                !.entriesRecovered = entriesCount,
                                !.blocksRestored = restoredCount,
                                !.backupTimestamp = metadata.timestamp]
  /\ pc' = "done"
  /\ UNCHANGED <<envVars, rt, listVars, restoreVars, backupVars, calls, faults>>
  /\ Progress

-----------------------------------------------------------------------------
(* The retry harness (lib/retry.js).                                       *)

\* The characters of the strings the harness inspects.
Spelling ==
     ("ECONNRESET" :> <<"E", "C", "O", "N", "N", "R", "E", "S", "E", "T">>)
  @@ ("ETIMEDOUT" :> <<"E", "T", "I", "M", "E", "D", "O", "U", "T">>)
  @@ ("ENOTFOUND" :> <<"E", "N", "O", "T", "F", "O", "U", "N", "D">>)
  @@ ("ENETUNREACH" :> <<"E", "N", "E", "T", "U", "N", "R", "E", "A", "C", "H">>)
  @@ ("EAI_AGAIN" :> <<"E", "A", "I", "_", "A", "G", "A", "I", "N">>)
  @@ ("ECONNREFUSED" :> <<"E", "C", "O", "N", "N", "R", "E", "F", "U", "S", "E", "D">>)
  @@ ("fetch failed" :> <<"f", "e", "t", "c", "h", " ", "f", "a", "i", "l", "e", "d">>)
  @@ ("network error" :> <<"n", "e", "t", "w", "o", "r", "k", " ", "e", "r", "r", "o", "r">>)
  @@ ("rate limit" :> <<"r", "a", "t", "e", " ", "l", "i", "m", "i", "t">>)
  @@ ("too many requests" :> <<"t", "o", "o", " ", "m", "a", "n", "y", " ", "r", "e", "q", "u", "e", "s", "t", "s">>)
  @@ ("429" :> <<"4", "2", "9">>)
  @@ ("503" :> <<"5", "0", "3">>)
  @@ ("504" :> <<"5", "0", "4">>)
  @@ ("Error" :> <<"E", "r", "r", "o", "r">>)
  @@ ("connect ETIMEDOUT" :> <<"c", "o", "n", "n", "e", "c", "t", " ", "E", "T", "I", "M", "E", "D", "O", "U", "T">>)
  @@ ("Service Unavailable" :> <<"S", "e", "r", "v", "i", "c", "e", " ", "U", "n", "a", "v", "a", "i", "l", "a", "b", "l", "e">>)
  @@ ("Forbidden" :> <<"F", "o", "r", "b", "i", "d", "d", "e", "n">>)
  @@ ("Network download timeout" :> <<"N", "e", "t", "w", "o", "r", "k", " ", "d", "o", "w", "n", "l", "o", "a", "d", " ", "t", "i", "m", "e", "o", "u", "t">>)
  @@ ("Upload failed" :> <<"U", "p", "l", "o", "a", "d", " ", "f", "a", "i", "l", "e", "d">>)
  @@ ("[object Object]" :> <<"[", "o", "b", "j", "e", "c", "t", " ", "O", "b", "j", "e", "c", "t", "]">>)
  @@ ("fetch failed: socket hang up" :> <<"f", "e", "t", "c", "h", " ", "f", "a", "i", "l", "e", "d", ":", " ", "s", "o", "c", "k", "e", "t", " ", "h", "a", "n", "g", " ", "u", "p">>)
  @@ ("network error occurred" :> <<"n", "e", "t", "w", "o", "r", "k", " ", "e", "r", "r", "o", "r", " ", "o", "c", "c", "u", "r", "r", "e", "d">>)
  @@ ("DNS lookup failed" :> <<"D", "N", "S", " ", "l", "o", "o", "k", "u", "p", " ", "f", "a", "i", "l", "e", "d">>)
  @@ ("Too Many Requests" :> <<"T", "o", "o", " ", "M", "a", "n", "y", " ", "R", "e", "q", "u", "e", "s", "t", "s">>)
  @@ ("Rate limit exceeded" :> <<"R", "a", "t", "e", " ", "l", "i", "m", "i", "t", " ", "e", "x", "c", "e", "e", "d", "e", "d">>)
  @@ ("Invalid input" :> <<"I", "n", "v", "a", "l", "i", "d", " ", "i", "n", "p", "u", "t">>)
  @@ ("Authentication failed" :> <<"A", "u", "t", "h", "e", "n", "t", "i", "c", "a", "t", "i", "o", "n", " ", "f", "a", "i", "l", "e", "d">>)
  @@ ("Bad Request" :> <<"B", "a", "d", " ", "R", "e", "q", "u", "e", "s", "t">>)
  @@ ("Unauthorized" :> <<"U", "n", "a", "u", "t", "h", "o", "r", "i", "z", "e", "d">>)
  @@ ("Not Found" :> <<"N", "o", "t", " ", "F", "o", "u", "n", "d">>)
  @@ ("Not Found: bafy429" :> <<"N", "o", "t", " ", "F", "o", "u", "n", "d", ":", " ", "b", "a", "f", "y", "4", "2", "9">>)
  @@ ("API rate limit exceeded" :> <<"A", "P", "I", " ", "r", "a", "t", "e", " ", "l", "i", "m", "i", "t", " ", "e", "x", "c", "e", "e", "d", "e", "d">>)

Chars(s) == Spelling[s]

UpperCase == <<"A", "B", "C", "D", "E", "F", "G", "H", "I", "J", "K", "L", "M", "N", "O", "P", "Q", "R", "S", "T", "U", "V", "W", "X", "Y", "Z">>

LowerCase == <<"a", "b", "c", "d", "e", "f", "g", "h", "i", "j", "k", "l", "m", "n", "o", "p", "q", "r", "s", "t", "u", "v", "w", "x", "y", "z">>

\* String.prototype.toLowerCase
ToLowerCase(chars) ==
  [i \in 1..Len(chars) |->
     IF \E k \in 1..Len(UpperCase) : UpperCase[k] = chars[i]
       THEN LowerCase[CHOOSE k \in 1..Len(UpperCase) : UpperCase[k] = chars[i]]
       ELSE chars[i]]

\* String.prototype.includes
Includes(text, pattern) ==
  \E i \in 0..(Len(text) - Len(pattern)) :
     SubSeq(text, i + 1, i + Len(pattern)) = pattern

Digits == <<"0", "1", "2", "3", "4", "5", "6", "7", "8", "9">>

\* Number.prototype.toString of a natural number
RECURSIVE NumberToString(_)
NumberToString(n) ==
  IF n < Len(Digits)
    THEN <<Digits[n + 1]>>
    ELSE NumberToString(n \div Len(Digits)) \o <<Digits[(n % Len(Digits)) + 1]>>

DefaultMaxRetries == 3

DefaultInitialDelayMs == 1000

DefaultMaxDelayMs == 30000

DefaultBackoffMultiplier == 2

DefaultJitterMs == 100

\* export const DEFAULT_RETRY_CONFIG
DEFAULT_RETRY_CONFIG ==
  [maxRetries |-> DefaultMaxRetries,
   initialDelayMs |-> DefaultInitialDelayMs,
   maxDelayMs |-> DefaultMaxDelayMs,
   backoffMultiplier |-> DefaultBackoffMultiplier,
   jitterMs |-> DefaultJitterMs,
   retryableErrors |-> <<"ECONNRESET", "ETIMEDOUT", "ENOTFOUND", "ENETUNREACH", "EAI_AGAIN", "ECONNREFUSED", "fetch failed", "network error", "rate limit", "too many requests", "429", "503", "504">>,
   onRetry |-> Null]

\* An Error object: its name and message, and the optional code, status and
\* statusCode properties (Null and 0 stand for a property that is absent).
JsError(message, code, status, statusCode) ==
  [name |-> "Error", message |-> message, code |-> code,
   status |-> status, statusCode |-> statusCode]

\* An object literal with a message and the optional properties of JsError.
JsObject(message, code, status, statusCode) ==
  [JsError(message, code, status, statusCode) EXCEPT !.name = "Object"]

\* a thrown value that is undefined or null
NullError == [name |-> Null, message |-> Null, code |-> Null, status |-> 0, statusCode |-> 0]

\* error.toString(): Error.prototype.toString of an Error, and
\* Object.prototype.toString of an object literal
ErrorToString(error) ==
  IF error.name = "Object"
    THEN Chars("[object Object]")
    ELSE Chars(error.name) \o <<":", " ">> \o Chars(error.message)

\* export function isRetryableError(error, retryableErrors)
isRetryableError(error, retryableErrors) ==
  IF error = NullError
    THEN FALSE
    ELSE LET errorString == ToLowerCase(ErrorToString(error))
             errorCode == IF error.code = Null THEN << >>
                          ELSE ToLowerCase(Chars(error.code))
             errorMessage == ToLowerCase(Chars(error.message))
             statusCode == IF error.status # 0 THEN NumberToString(error.status)
                           ELSE IF error.statusCode # 0
                                  THEN NumberToString(error.statusCode)
                                  ELSE << >>
         IN \E i \in 1..Len(retryableErrors) :
              LET lowerPattern == ToLowerCase(Chars(retryableErrors[i]))
              IN \/ Includes(errorString, lowerPattern)
                 \/ Includes(errorCode, lowerPattern)
                 \/ Includes(errorMessage, lowerPattern)
                 \/ Includes(statusCode, lowerPattern)

\* A socket timeout as node reports it: code ETIMEDOUT.
ErrTimedOut == JsError("connect ETIMEDOUT", "ETIMEDOUT", 0, 0)

\* An HTTP 503 answer of the remote store.
ErrUnavailable == JsError("Service Unavailable", Null, 503, 0)

\* An HTTP 403 answer of the remote store.
ErrForbidden == JsError("Forbidden", Null, 0, 403)

\* The rejection of a remote download that exceeded its timeout.
ErrDownloadTimeout == JsError("Network download timeout", Null, 0, 0)

\* Mutant of calculateBackoffDelay: the delay is not capped at maxDelayMs.
calculateBackoffDelay_Uncapped(attemptNumber, config, jitter) ==
  config.initialDelayMs * (config.backoffMultiplier ^ attemptNumber) + jitter

\* export function calculateBackoffDelay(attemptNumber, config); `jitter` is
\* the whole part of Math.random() * jitterMs
calculateBackoffDelay(attemptNumber, config, jitter) ==
  LET exponentialDelay == config.initialDelayMs * (config.backoffMultiplier ^ attemptNumber)
      cappedDelay == Min(exponentialDelay, config.maxDelayMs)
  IN cappedDelay + jitter

\* The least and the greatest whole part of Math.random() * jitterMs.
Jitters(jitterMs) == IF jitterMs = 0 THEN {0} ELSE {0, jitterMs - 1}

\* One settlement of the promise returned by operation().
Resolved(value) == [settled |-> "resolved", value |-> value, error |-> NullError]

Rejected(error) == [settled |-> "rejected", value |-> Null, error |-> error]

\* The n-th call of operation(): the operation is given by the outcomes of its
\* successive calls, the last one repeating.
OutcomeOf(operation, n) == operation[Min(n, Len(operation))]

\* retryWithBackoff before its first iteration: let lastError; let attempt = 0
RetryState(config, operation) ==
  [config |-> config, operation |-> operation, attempt |-> 0,
   invocations |-> 0, sleeps |-> << >>, callbacks |-> << >>,
   lastError |-> NullError, delay |-> 0, returned |-> Null, thrown |-> NullError]

NoRetryState == RetryState(DEFAULT_RETRY_CONFIG, << >>)

\* Mutant of ShouldRetry: the attempt number is not compared with maxRetries.
ShouldRetry_Unlimited(attempt_, config, error) ==
  isRetryableError(error, config.retryableErrors)

\* Mutant of ShouldRetry: the error is not classified.
ShouldRetry_AnyError(attempt_, config, error) == attempt_ < config.maxRetries

\* Mutant of ShouldRetry: no failure is retried.
ShouldRetry_Never(attempt_, config, error) == FALSE

\* const shouldRetry = attempt < maxRetries && isRetryableError(error, config.retryableErrors)
ShouldRetry(attempt_, config, error) ==
  attempt_ < config.maxRetries /\ isRetryableError(error, config.retryableErrors)

\* One iteration of the while loop up to its suspension: operation() is
\* awaited; its value is returned, or its error is thrown or kept for a retry.
\* After the loop: throw lastError.  Each step gives the local variables after
\* it, where the run is suspended next, and how it ended if it did.
InvokeSteps(state) ==
  IF state.attempt <= state.config.maxRetries
    THEN LET outcome == OutcomeOf(state.operation, state.invocations + 1)
             called == [state EXCEPT !.invocations = @ + 1]
         IN IF outcome.settled = "resolved"
              THEN {[state |-> [called EXCEPT !.returned = outcome.value],
                     pc |-> "done", kind |-> "return"]}
              ELSE IF ~ShouldRetry(state.attempt, state.config, outcome.error)
                     THEN {[state |-> [called EXCEPT !.lastError = outcome.error,
                                                     !.thrown = outcome.error],
                            pc |-> "done", kind |-> "throw"]}
                     ELSE {[state |-> [called EXCEPT
                                         !.lastError = outcome.error,
                                         !.delay = calculateBackoffDelay(
                                                     state.attempt, state.config, jitter)],
                            pc |-> "t_sleep", kind |-> "none"] :
                             jitter \in Jitters(state.config.jitterMs)}
    ELSE {[state |-> [state EXCEPT !.thrown = state.lastError],
           pc |-> "done", kind |-> "throw"]}

\* What the promise of retryWithBackoff settles with after a step.
ResultOfStep(step, before) ==
  IF step.kind = "return"
    THEN [NoResult EXCEPT !.kind = "return", !.success = TRUE]
    ELSE IF step.kind = "throw"
           THEN Thrown(step.state.thrown.message)
           ELSE before

\* retryWithBackoff(operation, options): a call of the operation
RetryInvoke ==
  /\ pc = "t_call"
  /\ \E step \in InvokeSteps(rt) :
       /\ rt' = step.state
       /\ pc' = step.pc
       /\ result' = ResultOfStep(step, result)
  /\ UNCHANGED <<op, opts, world, listVars, restoreVars, backupVars, calls, events, faults>>

\* The error a failing onRetry callback rejects with.
CallbackError == JsError("Callback error", Null, 0, 0)

\* await onRetry(error, attempt, delay): what the callback of the caller does
OnRetryOutcome(config) ==
  IF config.onRetry = "throws" THEN Rejected(CallbackError) ELSE Resolved(Null)

\* Mutant of HookEscapes: the callback is awaited outside any try block.
HookEscapes_Uncaught(outcome) == outcome.settled = "rejected"

\* try { await onRetry(error, attempt, delay) } catch (callbackError) { logger.warn(...) }:
\* no outcome of the callback leaves the try block
HookEscapes(outcome) == FALSE

\* if (onRetry) the callback is called and its failure logged; then
\* await sleep(delay); attempt++
SleepStep(state) ==
  LET hooked == state.config.onRetry # Null
      outcome == OnRetryOutcome(state.config)
      called == [state EXCEPT
                   !.callbacks = IF hooked
                                   THEN Append(@, [error |-> state.lastError,
                                                   attempt |-> state.attempt,
                                                   delay |-> state.delay])
                                   ELSE @]
  IN IF hooked /\ HookEscapes(outcome)
       THEN [state |-> [called EXCEPT !.thrown = outcome.error],
             pc |-> "done", kind |-> "throw"]
       ELSE [state |-> [called EXCEPT !.sleeps = Append(@, state.delay),
                                      !.attempt = @ + 1],
             pc |-> "t_call", kind |-> "none"]

\* retryWithBackoff(operation, options): the pause before a retry
RetrySleep ==
  /\ pc = "t_sleep"
  /\ LET step == SleepStep(rt)
     IN /\ rt' = step.state
        /\ pc' = step.pc
        /\ result' = ResultOfStep(step, result)
  /\ UNCHANGED <<op, opts, world, listVars, restoreVars, backupVars, calls, events, faults>>

\* retryBatch: the retryWithBackoff call made for one operation, suspended
\* before its first call of the operation.
BatchRun(config, operation) ==
  [state |-> RetryState(config, operation), pc |-> "t_call", kind |-> "none"]

\* Mutant of BatchResult: every element carries the index 0.
BatchResult_Unindexed(run, index) ==
  IF run.kind = "return"
    THEN [success |-> TRUE, result |-> run.state.returned, error |-> NullError, index |-> 0]
    ELSE [success |-> FALSE, result |-> Null, error |-> run.state.thrown, index |-> 0]

\* results.map((result, index) => ...): the element reported for a settled
\* promise, fulfilled or rejected
BatchResult(run, index) ==
  IF run.kind = "return"
    THEN [success |-> TRUE, result |-> run.state.returned, error |-> NullError,
          index |-> index]
    ELSE [success |-> FALSE, result |-> Null, error |-> run.state.thrown,
          index |-> index]

\* retryBatch: one of the pending retryWithBackoff calls calls its operation
BatchInvoke ==
  /\ pc = "q_settle"
  /\ \E i \in DOMAIN rt.runs :
       /\ rt.runs[i].pc = "t_call"
       /\ \E step \in InvokeSteps(rt.runs[i].state) :
            rt' = [rt EXCEPT !.runs[i] = step]
  /\ UNCHANGED <<op, opts, world, pc, listVars, restoreVars, backupVars, calls, events, faults, result>>

\* retryBatch: one of the pending retryWithBackoff calls pauses before a retry
BatchSleep ==
  /\ pc = "q_settle"
  /\ \E i \in DOMAIN rt.runs :
       /\ rt.runs[i].pc = "t_sleep"
       /\ rt' = [rt EXCEPT !.runs[i] = SleepStep(rt.runs[i].state)]
  /\ UNCHANGED <<op, opts, world, pc, listVars, restoreVars, backupVars, calls, events, faults, result>>

\* await Promise.allSettled(...): all promises have settled; the results are
\* mapped and returned
BatchSettle ==
  /\ pc = "q_settle"
  /\ \A i \in DOMAIN rt.runs : rt.runs[i].pc = "done"
  /\ result' = [NoResult EXCEPT
                  !.kind = "return", !.success = TRUE,
                  !.list = [i \in DOMAIN rt.runs |-> BatchResult(rt.runs[i], i - 1)]]
  /\ pc' = "done"
  /\ UNCHANGED <<op, opts, world, listVars, restoreVars, backupVars, calls, events, faults, rt>>

\* A call of calculateBackoffDelay(attemptNumber, config) on its own.
CalculateDelay ==
  /\ pc = "d_call"
  /\ \E jitter \in Jitters(rt.config.jitterMs) :
       rt' = [rt EXCEPT !.delay = calculateBackoffDelay(rt.attempt, rt.config, jitter)]
  /\ result' = [NoResult EXCEPT !.kind = "return", !.success = TRUE]
  /\ pc' = "done"
  /\ UNCHANGED <<op, opts, world, listVars, restoreVars, backupVars, calls, events, faults>>

\* A call of isRetryableError(error) on its own, with the default patterns.
Classify ==
  /\ pc = "k_call"
  /\ rt' = [rt EXCEPT !.returned = isRetryableError(rt.lastError, rt.config.retryableErrors)]
  /\ result' = [NoResult EXCEPT !.kind = "return", !.success = TRUE]
  /\ pc' = "done"
  /\ UNCHANGED <<op, opts, world, listVars, restoreVars, backupVars, calls, events, faults>>

-----------------------------------------------------------------------------
(* StorachaStorage (lib/storacha-storage.js): a Map kept on the instance   *)
(* in front of the remote store.  For op = "storage", `rt` holds the state *)
(* of the instance and the record of the last method call.                 *)

\* JavaScript's undefined
Undefined == "undefined"

\* The empty string, a value that is falsy
EmptyString == ""

\* The hashes passed to the methods: the empty hash, a key that does not
\* parse as a CID, and the CID of a block the remote store holds.
RemoteHash == "bafyremote"

Hashes == {EmptyString, "test-key-1", RemoteHash}

\* The block the remote store holds under RemoteHash.
RemoteBytes == "remote-bytes"

\* The data passed to put: two byte arrays and a falsy value.
Data == {"bytes-1", "bytes-2", EmptyString}

\* if (data), if (!hash): a value that is neither undefined nor falsy
Truthy(value) == value \notin {Undefined, EmptyString}

\* const cache = new Map()
EmptyCache == [h \in Hashes |-> Undefined]

\* The last method call on the instance.
NoCall ==
  [name |-> "none", hash |-> Undefined, returned |-> Undefined,
   thrown |-> FALSE, contacted |-> FALSE, cacheBefore |-> EmptyCache]

\* The instance: the cache and isModified; `written` keeps, per hash, the
\* data of the latest put that no del or clear has followed; `removed`
\* keeps the hashes of a del or a clear that no put has followed.
StorageState(cache) ==
  [cache |-> cache, isModified |-> FALSE,
   written |-> EmptyCache, removed |-> {}, last |-> NoCall]

\* CID.parse(orbitdbCID) succeeds
ParsesAsCid(hash) == hash = RemoteHash

\* loadBlockFromStoracha(orbitdbCID): null when the hash is no CID or the
\* download fails, the bytes the remote store serves otherwise.
loadBlockFromStoracha(hash) ==
  IF ~ParsesAsCid(hash) THEN {[data |-> Null, contacted |-> FALSE]}
  ELSE {[data |-> RemoteBytes, contacted |-> TRUE],
        [data |-> Null, contacted |-> TRUE]}

\* put(hash, data)
StoragePut ==
  /\ op = "storage"
  /\ \E hash \in Hashes, data \in Data :
       IF ~Truthy(hash)
         THEN rt' = [rt EXCEPT !.last = [NoCall EXCEPT !.name = "put", !.hash = hash,
                                                        !.thrown = TRUE,
                                                        !.cacheBefore = rt.cache]]
         ELSE rt' = [rt EXCEPT !.cache[hash] = data,
                               !.isModified = TRUE,
                               !.written[hash] = data,
                               !.removed = @ \ {hash},
                               !.last = [NoCall EXCEPT !.name = "put", !.hash = hash,
                                                       !.cacheBefore = rt.cache]]
  /\ UNCHANGED <<op, opts, world, pc, listVars, restoreVars, backupVars, calls, events,
                 faults, result>>

\* let data = cache.get(hash); if (data) { return data }
CacheHit(data) == Truthy(data)

\* get(hash)
StorageGet ==
  /\ op = "storage"
  /\ \E hash \in Hashes :
       LET data == rt.cache[hash]
           call == [NoCall EXCEPT !.name = "get", !.hash = hash, !.cacheBefore = rt.cache]
       IN IF CacheHit(data)
            THEN rt' = [rt EXCEPT !.last = [call EXCEPT !.returned = data]]
            ELSE \E loaded \in loadBlockFromStoracha(hash) :
                   IF loaded.data # Null
                     THEN rt' = [rt EXCEPT !.cache[hash] = loaded.data,
                                           !.last = [call EXCEPT
                                                       !.returned = loaded.data,
                                                       !.contacted = loaded.contacted]]
                     ELSE rt' = [rt EXCEPT !.last = [call EXCEPT
                                                       !.contacted = loaded.contacted]]
  /\ UNCHANGED <<op, opts, world, pc, listVars, restoreVars, backupVars, calls, events,
                 faults, result>>

\* del(hash)
StorageDel ==
  /\ op = "storage"
  /\ \E hash \in Hashes :
       LET existed == rt.cache[hash] # Undefined
       IN rt' = [rt EXCEPT !.cache[hash] = Undefined,
                           !.isModified = @ \/ existed,
                           !.written[hash] = Undefined,
                           !.removed = @ \cup {hash},
                           !.last = [NoCall EXCEPT !.name = "del", !.hash = hash,
                                                   !.cacheBefore = rt.cache]]
  /\ UNCHANGED <<op, opts, world, pc, listVars, restoreVars, backupVars, calls, events,
                 faults, result>>

\* clear()
StorageClear ==
  /\ op = "storage"
  /\ rt' = [rt EXCEPT !.cache = EmptyCache,
                      !.isModified = TRUE,
                      !.written = EmptyCache,
                      !.removed = Hashes,
                      !.last = [NoCall EXCEPT !.name = "clear", !.cacheBefore = rt.cache]]
  /\ UNCHANGED <<op, opts, world, pc, listVars, restoreVars, backupVars, calls, events,
                 faults, result>>

-----------------------------------------------------------------------------
(* backupDatabaseCAR, step by step; every step runs inside its try block.  *)

\* The database handle backupDatabaseCAR holds: none before orbitdb.open.
NoDatabase == [state |-> "none", address |-> Null, entries |-> {}]

NoBackupState ==
  [database |-> NoDatabase, callerAdded |-> {}, blocks |-> << >>, entriesCount |-> 0,
   metadata |-> NoDoc, carBytes |-> MalformedCar, carCID |-> NoCid]

BackupFails(message) ==
  /\ pc' = "done"
  /\ result' = Failure(message)

\* initializeStorachaClient / initializeStorachaClientWithUCAN
BackupClient ==
  /\ pc = "b_start"
  /\ calls' = Append(calls, "client")
  /\ IF ~opts.credentials
       THEN BackupFails(ErrCredentials)
       ELSE \E ok \in BOOLEAN :
              IF ok THEN pc' = "b_open" /\ UNCHANGED result
              ELSE BackupFails(ErrCredentials)
  /\ UNCHANGED <<envVars, rt, listVars, restoreVars, backupVars, faults>>
  /\ Progress

\* The block map extractDatabaseBlocks returns for a database holding the
\* entries E: the manifest and every log-entry block, keyed in base32.
ExtractedBlocks(E) == readBlocksFromCAR(GenuineCar(E))

\* orbitdb.open(address, config.dbConfig): the open database at this
\* address, holding the entries of the source.
OpenDatabase(address) ==
  [state |-> "open", address |-> address, entries |-> world.source]

\* const database = await orbitdb.open(databaseAddress, config.dbConfig)
BackupOpen ==
  /\ pc = "b_open"
  /\ calls' = Append(calls, "open")
  /\ \E ok \in BOOLEAN :
       IF ok
         THEN /\ bk' = [bk EXCEPT !.database = OpenDatabase(opts.databaseAddress)]
              /\ pc' = "b_extract"
              /\ UNCHANGED result
         ELSE BackupFails(ErrOpen) /\ UNCHANGED bk
  /\ UNCHANGED <<envVars, rt, listVars, restoreVars, uploads, faults>>
  /\ Progress

\* extractDatabaseBlocks(database, { logEntriesOnly: false })
BackupExtract ==
  /\ pc = "b_extract"
  /\ calls' = Append(calls, "extract")
  /\ \E ok \in BOOLEAN :
       IF ok
         THEN /\ bk' = [bk EXCEPT !.blocks = ExtractedBlocks(bk.database.entries)]
              /\ pc' = "b_metadata"
              /\ UNCHANGED result
         ELSE BackupFails(ErrExtract) /\ UNCHANGED bk
  /\ UNCHANGED <<envVars, rt, listVars, restoreVars, uploads, faults>>
  /\ Progress

\* The caller, who holds the same database instance, adds an entry while
\* the backup is between extractDatabaseBlocks and database.all().
CallerAdds ==
  /\ op = "backup"
  /\ pc = "b_metadata"
  /\ Cardinality(bk.database.entries) < MaxEntries
  /\ LET e == Cardinality(bk.database.entries) + 1
     IN bk' = [bk EXCEPT !.database.entries = @ \cup {e},
                         !.callerAdded = @ \cup {e}]
  /\ UNCHANGED <<envVars, pc, rt, listVars, restoreVars, uploads, calls, events, faults,
                 result>>

\* Step 3: database.all(), the metadata object and its validation.
BackupMetadata ==
  /\ pc = "b_metadata"
  /\ calls' = Append(calls, "all")
  /\ \E n \in Backups :
       bk' = [bk EXCEPT !.entriesCount = Cardinality(bk.database.entries),
                        !.metadata = [BuildMetadata(BackupTime(n), bk.database.entries,
                                                    Len(bk.blocks))
                                        EXCEPT !.address = bk.database.address]]
  /\ pc' = "b_pack"
  /\ UNCHANGED <<envVars, rt, listVars, restoreVars, uploads, faults, result>>
  /\ Progress

\* CID.parse(cidString) returns: the string is a CID in a known multibase.
IsCidString(s) == s[1] \in {"b", "z"}

\* Mutant of FramesOf: the block the Map yields last is not written.
FramesOf_LastOmitted(m) ==
  [i \in 1..(Len(m) - 1) |-> [cid |-> CIDparse(m[i].key), bytes |-> m[i].bytes]]

RECURSIVE FramesOf(_)
\* for (const [cidString, blockData] of blocks.entries()) {
\*   try { await writer.put({cid: CID.parse(cidString), bytes: blockData.bytes}) }
\*   catch (error) { logger.warn(...) } }
FramesOf(m) ==
  IF m = << >> THEN << >>
  ELSE (IF IsCidString(Head(m).key)
          THEN <<[cid |-> CIDparse(Head(m).key), bytes |-> Head(m).bytes]>>
          ELSE << >>)
       \o FramesOf(Tail(m))

\* createCARFromBlocks(blocks, manifestCID): one frame per entry of the Map
createCARFromBlocks(m) == Car(FramesOf(m))

\* Step 4: the CAR in memory.
BackupPack ==
  /\ pc = "b_pack"
  /\ calls' = Append(calls, "pack")
  /\ bk' = [bk EXCEPT !.carBytes = createCARFromBlocks(bk.blocks)]
  /\ pc' = "b_upload_car"
  /\ UNCHANGED <<envVars, rt, listVars, restoreVars, uploads, faults, result>>
  /\ Progress

\* createCARFromBlocks(M, r) for a block map M given by the caller.
RoundTripPack ==
  /\ pc = "c_pack"
  /\ bk' = [bk EXCEPT !.carBytes = createCARFromBlocks(bk.blocks)]
  /\ calls' = Append(calls, "pack")
  /\ pc' = "c_unpack"
  /\ UNCHANGED <<envVars, rt, listVars, restoreVars, uploads, faults, result>>
  /\ Progress

\* readBlocksFromCAR of the CAR just packed.
RoundTripUnpack ==
  /\ pc = "c_unpack"
  /\ blocks' = readBlocksFromCAR(bk.carBytes)
  /\ calls' = Append(calls, "unpack")
  /\ pc' = "done"
  /\ UNCHANGED <<envVars, rt, listVars, backupToRestore, metadata, carBytes, fetches,
                 blockstore, logStorage, db, heads, joins, restoredCount,
                 entriesCount, poll, backupVars, faults, result>>
  /\ Progress

\* Mutant of WithCarCid: the metadata is uploaded as built, carCID left out.
WithCarCid_Omitted(doc, carCID) == doc

\* metadata.carCID = carCID
WithCarCid(doc, carCID) == [doc EXCEPT !.carCID = carCID]

\* The rejection of an upload for a reason that is not transient.
ErrUploadRejected == JsError(ErrUpload, Null, 0, 0)

\* What one call of client.uploadFile does: it resolves, or it rejects with a
\* transient or a permanent error.
UploadOutcomes ==
  {Resolved("cid"), Rejected(ErrTimedOut), Rejected(ErrUnavailable),
   Rejected(ErrUploadRejected)}

\* Step 5: const carResult = await client.uploadFile(carFile)
BackupUploadCar ==
  /\ pc = "b_upload_car"
  /\ calls' = Append(calls, "upload:car")
  /\ \E outcome \in UploadOutcomes, n \in Backups :
       IF outcome.settled = "resolved"
         THEN /\ bk' = [bk EXCEPT !.carCID = ObjCid("car", n),
                                  !.metadata = WithCarCid(bk.metadata, ObjCid("car", n))]
              /\ uploads' = Append(uploads,
                    [kind |-> "car", cid |-> ObjCid("car", n),
                     car |-> bk.carBytes, doc |-> NoDoc])
              /\ pc' = "b_upload_metadata"
              /\ UNCHANGED result
         ELSE BackupFails(outcome.error.message) /\ UNCHANGED <<bk, uploads>>
  /\ UNCHANGED <<envVars, rt, listVars, restoreVars, faults>>
  /\ Progress

\* new Blob([JSON.stringify(metadata, null, 2)])
MetadataToUpload(state) == state.metadata

\* Mutant of LeaveDatabase: the backup closes the database before it returns.
LeaveDatabase_Closed(database) == [database EXCEPT !.state = "closed"]

\* "Database is left open for caller to manage": the handle at the return
\* of backupDatabaseCAR, no database.close() having been called.
LeaveDatabase(database) == database

\* client.uploadFile(updatedMetadataFile) and the success object
BackupUploadMetadata ==
  /\ pc = "b_upload_metadata"
  /\ calls' = Append(calls, "upload:metadata")
  /\ \E outcome \in UploadOutcomes, n \in Backups :
       IF outcome.settled = "resolved"
         THEN /\ bk' = [bk EXCEPT !.database = LeaveDatabase(bk.database)]
              /\ uploads' = Append(uploads,
                    [kind |-> "metadata", cid |-> ObjCid("metadata", n),
                     car |-> MalformedCar, doc |-> MetadataToUpload(bk)])
              /\ result' = [NoResult EXCEPT !.kind = "return", !.success = TRUE,
                                            !.method = "car-timestamped",
                                            !.databaseAddress = bk.database.address,
                                            !.blocksRestored = 0,
                                            !.backupTimestamp = bk.metadata.timestamp,
                                            !.metadataCID = ObjCid("metadata", n),
                                            !.carCID = bk.carCID]
              /\ pc' = "done"
         ELSE BackupFails(outcome.error.message) /\ UNCHANGED <<bk, uploads>>
  /\ UNCHANGED <<envVars, rt, listVars, restoreVars, faults>>
  /\ Progress

-----------------------------------------------------------------------------
(* Initial states: the call of one public operation in one environment.    *)

DefaultOptions ==
  [timestamp |-> 0, metadataCID |-> NoCid, useIPFSNetwork |-> TRUE,
   gatewayFallback |-> TRUE, ipfs |-> TRUE, spaceName |-> Null,
   credentials |-> TRUE, eventEmitter |-> TRUE,
   databaseAddress |-> DatabaseAddress, timeout |-> ShortTimeout]

\* The backups a space can list: one more than the index looks for.
ListedBackups == 1..(EnoughBackups + 1)

GenuineCars == [n \in ListedBackups |-> GenuineCar(BackupEntries(n))]

\* Bytes a read path can deliver in place of a block's bytes.
ForgedBytes == {GarbageBytes, EntryBytes(1)}

\* The CARs a read path can deliver for a CAR object: the CAR of any log,
\* possibly with one frame carrying other bytes or written a second time
\* with other bytes, or bytes that are no CAR.
DeliveredCars ==
  {MalformedCar}
    \cup {GenuineCar(E) : E \in SUBSET (1..MaxEntries)}
    \cup UNION {{Tampered(GenuineCar(E), i, b) :
                   i \in 1..Len(GenuineCar(E).frames), b \in ForgedBytes} :
                 E \in SUBSET (1..MaxEntries)}
    \cup UNION {{Car(Append(GenuineCar(E).frames,
                           [cid |-> GenuineCar(E).frames[i].cid, bytes |-> GarbageBytes])) :
                   i \in 1..Len(GenuineCar(E).frames)} :
                 E \in SUBSET (1..MaxEntries)}

\* Every gateway serves the object.
AllServe == [g \in 1..Len(Gateways) |-> Always(CarServed)]

\* Answers of a gateway that never yields the CAR.
FailingScripts ==
  {Always(r) : r \in {HtmlByContentType, HtmlTypeCarBody, XhtmlByContentType,
                      DoctypeBody, HtmlBody, XmlBody, ShortBody, ShortMarkup,
                      NotFound, RateLimited, FetchThrew}}
    \cup {<<RateLimited, FetchThrew, RateLimited>>,
          <<FetchThrew, RateLimited, FetchThrew>>}

\* Answers of a gateway that yields a body the restore takes as the CAR, at
\* once or after a rate limit or a failed request.
ServingScripts ==
  {Always(CarServed), Always(OtherBody),
   <<RateLimited, CarServed, CarServed>>,
   <<FetchThrew, FetchThrew, CarServed>>,
   <<RateLimited, RateLimited, CarServed>>,
   <<RateLimited, FetchThrew, CarServed>>}

\* The first k gateways fail the same way, the others serve.
GatewayWorlds ==
  {[g \in 1..Len(Gateways) |-> IF g <= k THEN f ELSE v] :
     k \in 0..Len(Gateways), f \in FailingScripts, v \in ServingScripts}

StartOfRun ==
  /\ backups = << >>
  /\ attempt = 0
  /\ probes = << >>
  /\ backupToRestore = NoDescriptor
  /\ metadata = NoDoc
  /\ carBytes = NoCar
  /\ fetches = << >>
  /\ blocks = << >>
  /\ blockstore = {}
  /\ logStorage = {}
  /\ db = NoDb
  /\ heads = << >>
  /\ joins = << >>
  /\ restoredCount = 0
  /\ entriesCount = 0
  /\ poll = NoPoll
  /\ uploads = << >>
  /\ calls = << >>
  /\ events = << >>
  /\ faults = 0
  /\ result = NoResult

StartState == StartOfRun /\ bk = NoBackupState

\* restoreFromSpaceCAR(orbitdb, options) on a fresh target node, the space
\* holding no, one or two backups that the read paths serve as uploaded.
InitRestore ==
  /\ op = "restore"
  /\ pc = "r_start"
  /\ opts \in {[DefaultOptions EXCEPT !.timestamp = t, !.metadataCID = m,
                                       !.useIPFSNetwork = u, !.gatewayFallback = g] :
                 t \in {0, TimestampString(BackupTime(1))},
                 m \in {NoCid, ObjCid("metadata", 1)},
                 u \in BOOLEAN, g \in BOOLEAN}
  /\ world \in [space : Spaces, cars : {GenuineCars}, netDown : BOOLEAN,
                 gwDown : BOOLEAN, gateways : {AllServe}, source : {{}}]
  /\ StartState

\* restoreFromSpaceCAR with the default options, the read paths delivering
\* any CAR for the CAR object of the latest backup.
InitRestoreDelivered ==
  /\ op = "restore"
  /\ pc = "r_start"
  /\ opts = DefaultOptions
  /\ world \in [space : {<<ObjCid("metadata", 2), ObjCid("car", 2)>>},
                 cars : {[GenuineCars EXCEPT ![2] = c] : c \in DeliveredCars},
                 netDown : {FALSE}, gwDown : {FALSE},
                 gateways : {AllServe}, source : {{}}]
  /\ StartState

\* The metadata objects of the backups a..b, oldest first.
MetadataRun(a, b) == [i \in 1..(b - a + 1) |-> ObjCid("metadata", a + i - 1)]

\* The CAR objects of the backups a..b, oldest first.
CarRun(a, b) == [i \in 1..(b - a + 1) |-> ObjCid("car", a + i - 1)]

Reverse(seq) == [i \in 1..Len(seq) |-> seq[Len(seq) + 1 - i]]

\* Listings of a space that holds many backups, or backups taken within
\* one second: the remote store lists in no particular order.
LargeSpaces ==
  {MetadataRun(1, k) \o CarRun(1, k) : k \in (EnoughBackups - 1)..(EnoughBackups + 1)}
    \cup {Reverse(MetadataRun(1, k) \o CarRun(1, k)) :
            k \in (EnoughBackups - 1)..(EnoughBackups + 1)}
    \cup {<<ObjCid("metadata", 2), ObjCid("car", 2), ObjCid("metadata", 3), ObjCid("car", 3)>>,
          <<ObjCid("metadata", 3), ObjCid("car", 3), ObjCid("metadata", 2), ObjCid("car", 2)>>}

\* restoreFromSpaceCAR or listAvailableBackups with the default options on
\* a space with many backups, every read path delivering.
InitLargeSpace ==
  /\ op \in {"restore", "list"}
  /\ pc = IF op = "restore" THEN "r_start" ELSE "l_files"
  /\ opts = DefaultOptions
  /\ world \in [space : LargeSpaces, cars : {GenuineCars}, netDown : {FALSE},
                 gwDown : {FALSE}, gateways : {AllServe}, source : {{}}]
  /\ StartState

\* A space shared by backups of several labels.
SharedSpace ==
  <<ObjCid("metadata", 1), ObjCid("car", 1), ObjCid("metadata.other", 2),
    ObjCid("metadata.nospace", 3), ObjCid("metadata.backupinfo", 4), ObjCid("json", 5)>>

\* listAvailableBackups({spaceName}) on a space shared by several labels,
\* every read path delivering.
InitListShared ==
  /\ op = "list"
  /\ pc = "l_files"
  /\ opts \in {[DefaultOptions EXCEPT !.spaceName = n] :
                 n \in {Null, "default", "other", "prod"}}
  /\ world \in [space : {SharedSpace, Reverse(SharedSpace)}, cars : {GenuineCars},
                 netDown : {FALSE}, gwDown : {FALSE}, gateways : {AllServe},
                 source : {{}}]
  /\ StartState

\* The blocks a caller can put into a block map: the manifest and the first
\* log entries, or other bytes under the same CID.
MapBlocks == {ManifestBytes} \cup {EntryBytes(i) : i \in 1..(MaxEntries - 1)}

\* An entry of a block map: the key is the base32 or the base58btc string
\* of a CID, or a string that is no CID.
MapEntry(key, bytes) == [key |-> key, cid |-> CIDparse(key), bytes |-> bytes]

\* The block maps of up to MaxEntries blocks, in every insertion order.
BlockMaps ==
  UNION {{m \in [1..n -> UNION {{MapEntry(ToBase32(CidOf(b)), b),
                                 MapEntry(ToBase58btc(CidOf(b)), b),
                                 MapEntry(ToBase32(CidOf(b)), GarbageBytes)} :
                                  b \in MapBlocks}
                           \cup {MapEntry(<<"not-a-cid", 0, 0>>, GarbageBytes)}] :
            \A i, j \in 1..n : i # j => m[i].key # m[j].key} :
          n \in 0..MaxEntries}

\* readBlocksFromCAR(createCARFromBlocks(M, r)) for a block map M.
InitRoundTrip ==
  /\ op = "roundtrip"
  /\ pc = "c_pack"
  /\ opts = DefaultOptions
  /\ world \in [space : {<< >>}, cars : {GenuineCars}, netDown : {FALSE},
                 gwDown : {FALSE}, gateways : {AllServe}, source : {{}}]
  /\ StartOfRun
  /\ bk \in {[NoBackupState EXCEPT !.blocks = m] : m \in BlockMaps}

\* listAvailableBackups(options)
InitList ==
  /\ op = "list"
  /\ pc = "l_files"
  /\ opts \in {[DefaultOptions EXCEPT !.useIPFSNetwork = u, !.gatewayFallback = g,
                                       !.ipfs = i] :
                 u \in BOOLEAN, g \in BOOLEAN, i \in BOOLEAN}
  /\ world \in [space : Spaces, cars : {GenuineCars}, netDown : BOOLEAN,
                 gwDown : BOOLEAN, gateways : {AllServe}, source : {{}}]
  /\ StartState

\* backupDatabaseCAR(orbitdb, databaseAddress, options) on a database that
\* holds the first k entries of the log.
InitBackup ==
  /\ op = "backup"
  /\ pc = "b_start"
  /\ opts \in {[DefaultOptions EXCEPT !.credentials = c, !.eventEmitter = e,
                                       !.databaseAddress = a] :
                 c \in BOOLEAN, e \in BOOLEAN,
                 a \in {DatabaseAddress, OtherAddress}}
  /\ world \in [space : {<< >>}, cars : {GenuineCars}, netDown : {FALSE},
                 gwDown : {FALSE}, gateways : {AllServe},
                 source : {1..k : k \in 0..MaxEntries}]
  /\ StartState

\* restoreFromSpaceCAR on a space holding a backup of each of two
\* databases, the latest backup or the backup named by metadataCID.
InitRestoreTwoDatabases ==
  /\ op = "restore"
  /\ pc = "r_start"
  /\ opts \in {[DefaultOptions EXCEPT !.metadataCID = m] :
                 m \in {NoCid, ObjCid("metadata", 1), ObjCid("metadata.otherdb", 2)}}
  /\ world \in [space : {<<ObjCid("car", 1), ObjCid("metadata", 1),
                            ObjCid("car", 2), ObjCid("metadata.otherdb", 2)>>,
                          <<ObjCid("car", 2), ObjCid("metadata.otherdb", 2),
                            ObjCid("car", 1), ObjCid("metadata", 1)>>},
                 cars : {GenuineCars}, netDown : {FALSE}, gwDown : {FALSE},
                 gateways : {AllServe}, source : {{}}]
  /\ StartState

\* restoreFromSpaceCAR on a space that holds no metadata a restore accepts:
\* the CAR of a backup whose metadata upload failed, alone, beside JSON
\* that is no backup metadata, or beside a file without content.
InitRestoreOrphanCar ==
  /\ op = "restore"
  /\ pc = "r_start"
  /\ opts \in {[DefaultOptions EXCEPT !.useIPFSNetwork = u, !.gatewayFallback = g] :
                 u \in BOOLEAN, g \in BOOLEAN}
  /\ world \in [space : {<<ObjCid("car", 1)>>, <<ObjCid("json", 2), ObjCid("car", 2)>>,
                          <<ObjCid("empty", 1), ObjCid("car", 1)>>},
                 cars : {GenuineCars}, netDown : BOOLEAN, gwDown : BOOLEAN,
                 gateways : {AllServe}, source : {{}}]
  /\ StartState

\* restoreFromSpaceCAR with a timeout that leaves the poll loop more than
\* a second, every read path delivering.
InitRestorePolling ==
  /\ op = "restore"
  /\ pc = "r_start"
  /\ opts = [DefaultOptions EXCEPT !.timeout = LongTimeout]
  /\ world \in [space : {<<ObjCid("car", 1), ObjCid("metadata", 1)>>,
                          <<ObjCid("car", 2), ObjCid("metadata", 2)>>},
                 cars : {GenuineCars}, netDown : {FALSE}, gwDown : {FALSE},
                 gateways : {AllServe}, source : {{}}]
  /\ StartState

\* restoreFromSpaceCAR over the gateways only, the gateways answering the
\* requests for the CAR with error pages, error statuses or the CAR.
InitRestoreGateways ==
  /\ op = "restore"
  /\ pc = "r_start"
  /\ opts \in {[DefaultOptions EXCEPT !.useIPFSNetwork = u] : u \in BOOLEAN}
  /\ world \in [space : {<<ObjCid("metadata", 2), ObjCid("car", 2)>>},
                 cars : {GenuineCars}, netDown : {TRUE}, gwDown : {FALSE},
                 gateways : GatewayWorlds, source : {{}}]
  /\ StartState

\* What one call of the operation handed to retryWithBackoff does.
RetryOutcomes ==
  {Resolved("value"), Rejected(ErrTimedOut), Rejected(ErrUnavailable),
   Rejected(ErrForbidden), Rejected(ErrDownloadTimeout)}

\* The operations: the outcomes of the first maxRetries + 1 calls under the
\* default maxRetries, the last outcome repeating afterwards.
Operations == [1..(DefaultMaxRetries + 1) -> RetryOutcomes]

\* The operations that fail on every call with one transient error.
FailingOperations ==
  {[i \in 1..(DefaultMaxRetries + 1) |-> Rejected(e)] : e \in {ErrTimedOut, ErrUnavailable}}

\* The operations run with a callback: transient failures, none to
\* maxRetries of them, followed by a success or by a permanent failure, and
\* the operations that never stop failing.
HookedOperations ==
  FailingOperations
  \cup {[i \in 1..(DefaultMaxRetries + 1) |->
            IF i <= k THEN Rejected(ErrTimedOut) ELSE last] :
          k \in 0..DefaultMaxRetries,
          last \in {Resolved("value"), Rejected(ErrForbidden)}}

\* options of the caller merged over DEFAULT_RETRY_CONFIG: maxRetries up to the
\* default and no jitter, as the callers of test/retry.test.js pass them
PlainConfigs ==
  {[DEFAULT_RETRY_CONFIG EXCEPT !.maxRetries = m, !.jitterMs = 0] :
     m \in 0..DefaultMaxRetries}

\* the default configuration, alone or with an onRetry callback that returns
\* or throws
CallbackConfigs ==
  {[DEFAULT_RETRY_CONFIG EXCEPT !.onRetry = cb] : cb \in {Null, "returns", "throws"}}

\* retryWithBackoff(operation, options)
InitRetry ==
  /\ op = "retry"
  /\ pc = "t_call"
  /\ opts = DefaultOptions
  /\ world = [space |-> << >>, cars |-> GenuineCars, netDown |-> FALSE,
              gwDown |-> FALSE, gateways |-> AllServe, source |-> {}]
  /\ StartState
  /\ rt \in {RetryState(config, operation) :
                config \in PlainConfigs, operation \in Operations}
           \cup {RetryState(config, operation) :
                    config \in CallbackConfigs, operation \in HookedOperations}

\* The greatest attempt number the callers of calculateBackoffDelay pass.
MaxAttemptNumber == 10

\* The configurations of the calculateBackoffDelay tests, and two with another
\* initial delay and multiplier.
DelayConfigs ==
  {[DEFAULT_RETRY_CONFIG EXCEPT !.initialDelayMs = c[1], !.maxDelayMs = c[2],
                                !.backoffMultiplier = c[3], !.jitterMs = c[4]] :
     c \in {<<1000, 30000, 2, 0>>, <<1000, 5000, 2, 0>>, <<1000, 30000, 2, 100>>,
            <<500, 10000, 3, 50>>, <<250, 250, 1, 1>>}}

\* The environment of a call that touches neither a space nor a database.
IdleWorld ==
  [space |-> << >>, cars |-> GenuineCars, netDown |-> FALSE,
   gwDown |-> FALSE, gateways |-> AllServe, source |-> {}]

\* calculateBackoffDelay(attemptNumber, config)
InitDelay ==
  /\ op = "delay"
  /\ pc = "d_call"
  /\ opts = DefaultOptions
  /\ world = IdleWorld
  /\ StartState
  /\ rt \in {[RetryState(config, << >>) EXCEPT !.attempt = n] :
                config \in DelayConfigs, n \in 0..MaxAttemptNumber}

\* The messages of the errors classified: those of the isRetryableError
\* tests, and messages of HTTP errors that quote a rate limit or a path.
ErrorMessages ==
  {"ECONNRESET", "ETIMEDOUT", "fetch failed", "network error occurred",
   "DNS lookup failed", "Too Many Requests", "Service Unavailable",
   "Invalid input", "Authentication failed", "Bad Request", "Unauthorized",
   "Not Found", "Forbidden", "Rate limit exceeded", "API rate limit exceeded",
   "Not Found: bafy429", "Network download timeout"}

\* The HTTP statuses of the errors classified; 0: the error carries none.
ErrorStatuses == {0, 400, 401, 403, 404, 429, 500, 503, 504}

\* The errors classified: Error objects and object literals, with or without
\* a code, with the status in `status` or in `statusCode`; and null.
ClassifiedErrors ==
  {NullError}
  \cup {JsError(m, code, st, 0) : m \in ErrorMessages,
           code \in {Null, "ECONNRESET", "ENOTFOUND", "ETIMEDOUT"}, st \in ErrorStatuses}
  \cup {JsObject(m, Null, st, 0) : m \in ErrorMessages, st \in ErrorStatuses}
  \cup {JsObject(m, Null, 0, st) : m \in ErrorMessages, st \in ErrorStatuses}

\* isRetryableError(error)
\* await StorachaStorage({ storachaKey, storachaProof, autoLoad, ... }): the
\* instance after initialize(), the cache empty or, with autoLoad, holding
\* the blocks of the space whose download succeeded.
InitStorage ==
  /\ op = "storage"
  /\ pc = "s_ready"
  /\ opts = DefaultOptions
  /\ world = IdleWorld
  /\ StartState
  /\ rt \in {StorageState(EmptyCache),
              StorageState([EmptyCache EXCEPT ![RemoteHash] = RemoteBytes])}

InitClassify ==
  /\ op = "classify"
  /\ pc = "k_call"
  /\ opts = DefaultOptions
  /\ world = IdleWorld
  /\ StartState
  /\ rt \in {[NoRetryState EXCEPT !.lastError = e] : e \in ClassifiedErrors}

\* The operations of a batch: success at once, success after one transient
\* failure, a transient failure on every call, a permanent failure.
BatchOperations ==
  {<<Resolved("value")>>,
   <<Rejected(ErrTimedOut), Resolved("value")>>,
   <<Rejected(ErrTimedOut), Rejected(ErrUnavailable)>>,
   <<Rejected(ErrForbidden)>>}

\* The options of the retryBatch tests: maxRetries 1 or 2, no jitter.
BatchConfigs ==
  {[DEFAULT_RETRY_CONFIG EXCEPT !.maxRetries = m, !.jitterMs = 0] : m \in {1, 2}}

\* retryBatch(operations, options) with up to MaxBatch operations
InitBatch ==
  /\ op = "batch"
  /\ pc = "q_settle"
  /\ opts = DefaultOptions
  /\ world = IdleWorld
  /\ StartState
  /\ rt \in UNION {{[runs |-> [i \in 1..n |-> BatchRun(config, operations[i])]] :
                       operations \in [1..n -> BatchOperations],
                       config \in BatchConfigs} : n \in 0..MaxBatch}

\* ---------------------------------------------------------------------
\* The wait after a 429 answer of a gateway (CAR download)

\* a number, or NaN
Number(n) == [nan |-> FALSE, value |-> n]

NaN == [nan |-> TRUE, value |-> 0]

isNaN(x) == x.nan

BaseWaitMs == 2000

MsPerSecond == 1000

IsDigit(c) == \E d \in 1..Len(Digits) : Digits[d] = c

DigitValue(c) == (CHOOSE d \in 1..Len(Digits) : Digits[d] = c) - 1

RECURSIVE LeadingNumber(_, _, _)
\* the value of the longest prefix of digits, NaN when there is none
LeadingNumber(chars, seen, acc) ==
  IF chars # << >> /\ IsDigit(Head(chars))
    THEN LeadingNumber(Tail(chars), TRUE, acc * Len(Digits) + DigitValue(Head(chars)))
    ELSE IF seen THEN Number(acc) ELSE NaN

\* parseInt(string): an optional sign, then the leading digits
ParseInt(chars) ==
  IF chars # << >> /\ Head(chars) \in {"-", "+"}
    THEN LET n == LeadingNumber(Tail(chars), FALSE, 0)
         IN IF isNaN(n) \/ Head(chars) = "+" THEN n ELSE Number(0 - n.value)
    ELSE LeadingNumber(chars, FALSE, 0)

\* A header of the response: its text, and the time `new Date(text)`
\* stands for (NaN when the text is no date).
Header(chars, time) == [sent |-> TRUE, chars |-> chars, time |-> time]

\* headers.get(name) is null for a header that was not sent
NoHeader == [sent |-> FALSE, chars |-> << >>, time |-> NaN]

\* if (retryAfter): a non-empty string
HeaderSet(h) == h.sent /\ h.chars # << >>

HttpDate == <<"W", "e", "d", ",", " ", "2", "1", " ", "O", "c", "t", " ", "2", "0", "1", "5", " ", "0", "7", ":", "2", "8", ":", "0", "0", " ", "G", "M", "T">>

ClockReadings == {10000}

RetryAfterHeaders(now) ==
  {NoHeader,
   Header(<< >>, NaN),
   Header(<<"1">>, NaN),
   Header(<<"6", "0">>, NaN),
   Header(<<"8", "6", "4", "0", "0">>, NaN),
   Header(<<"s", "o", "o", "n">>, NaN),
   Header(HttpDate, Number(now + 5000)),
   Header(HttpDate, Number(now - 5000))}

RateLimitResetHeaders ==
  {NoHeader,
   Header(<<"5">>, NaN),
   Header(<<"1", "5">>, NaN),
   Header(<<"9", "0", "0">>, NaN),
   Header(<<"l", "a", "t", "e", "r">>, NaN)}

Max(a, b) == IF a > b THEN a ELSE b

\* let waitTime = 2000 * (attempts + 1)
DefaultWait(attempts) == BaseWaitMs * (attempts + 1)

\* if (retryAfter) { ... } else if (rateLimitReset) { ... }
WaitTime(attempts, retryAfter, rateLimitReset, now) ==
  IF HeaderSet(retryAfter)
    THEN LET retrySeconds == ParseInt(retryAfter.chars)
         IN IF ~isNaN(retrySeconds)
              THEN retrySeconds.value * MsPerSecond
            ELSE IF ~isNaN(retryAfter.time)
              THEN Max(0, retryAfter.time.value - now)
            ELSE DefaultWait(attempts)
  ELSE IF HeaderSet(rateLimitReset)
    THEN LET resetTime == ParseInt(rateLimitReset.chars)
         IN IF ~isNaN(resetTime)
              THEN Max(0, resetTime.value * MsPerSecond - now)
              ELSE DefaultWait(attempts)
  ELSE DefaultWait(attempts)

WaitState(attempts, retryAfter, rateLimitReset, now) ==
  [attempts |-> attempts, retryAfter |-> retryAfter,
   rateLimitReset |-> rateLimitReset, now |-> now, waitTime |-> 0]

\* carResponse.status === 429 && attempts < maxAttempts - 1
RateLimitWait ==
  /\ op = "wait"
  /\ pc = "w_call"
  /\ rt' = [rt EXCEPT !.waitTime =
              WaitTime(rt.attempts, rt.retryAfter, rt.rateLimitReset, rt.now)]
  /\ result' = [NoResult EXCEPT !.kind = "return", !.success = TRUE]
  /\ pc' = "done"
  /\ UNCHANGED <<op, opts, world, listVars, restoreVars, backupVars, calls, events, faults>>

InitWait ==
  /\ op = "wait"
  /\ pc = "w_call"
  /\ opts = DefaultOptions
  /\ world = IdleWorld
  /\ StartState
  /\ \E now \in ClockReadings :
       rt \in {WaitState(attempts, retryAfter, rateLimitReset, now) :
                 attempts \in 0..(GatewayMaxAttempts - 2),
                 retryAfter \in RetryAfterHeaders(now),
                 rateLimitReset \in RateLimitResetHeaders}

Init ==
  \/ /\ rt = NoRetryState
     /\ \/ InitRestore
        \/ InitRestoreDelivered
        \/ InitRestorePolling
        \/ InitRestoreOrphanCar
        \/ InitRestoreTwoDatabases
        \/ InitRestoreGateways
        \/ InitLargeSpace
        \/ InitListShared
        \/ InitRoundTrip
        \/ InitList
        \/ InitBackup
  \/ InitRetry
  \/ InitDelay
  \/ InitClassify
  \/ InitBatch
  \/ InitStorage
  \/ InitWait

Next ==
  \/ ListSpaceFiles
  \/ ListPass
  \/ ListReturn
  \/ RestoreStart
  \/ RestoreListed
  \/ RestoreMetadata
  \/ RestoreDownloadCar
  \/ RestoreUnpack
  \/ RestoreBlocks
  \/ RestoreOpen
  \/ RestoreLogStorage
  \/ RestoreReopen
  \/ RestoreHeads
  \/ RestoreJoin
  \/ RestorePoll
  \/ RestoreReturn
  \/ BackupClient
  \/ BackupOpen
  \/ BackupExtract
  \/ CallerAdds
  \/ BackupMetadata
  \/ BackupPack
  \/ BackupUploadCar
  \/ BackupUploadMetadata
  \/ RoundTripPack
  \/ RoundTripUnpack
  \/ RetryInvoke
  \/ RetrySleep
  \/ CalculateDelay
  \/ Classify
  \/ BatchInvoke
  \/ BatchSleep
  \/ BatchSettle
  \/ StoragePut
  \/ StorageGet
  \/ StorageDel
  \/ StorageClear
  \/ RateLimitWait

Spec == Init /\ [][Next]_vars

-----------------------------------------------------------------------------
(* Properties.                                                             *)

IsPrefix(s, t) == Len(s) <= Len(t) /\ s = SubSeq(t, 1, Len(s))

Succeeded == result.kind = "return" /\ result.success

\* C1: a restore called with an explicit metadataCID and no timestamp uses
\* the metadata stored at that CID without consulting the backup index: in a
\* space holding the older backup 1 and the newer backup 2, with metadataCID
\* naming backup 1, a successful restore has installed the CAR of backup 1
\* and reports the timestamp of backup 1.
C1_RestoresTheGivenMetadataCid ==
  (/\ op = "restore"
   /\ opts.timestamp = 0
   /\ opts.metadataCID = ObjCid("metadata", 1)
   /\ Len(world.space) = 4
   /\ Succeeded)
  => /\ result.backupTimestamp = MetadataDoc(1).timestamp
     /\ carBytes.car = Served(ObjCid("car", 1)).car
     /\ "list_space" \notin Range(calls)

\* C2: restoreFromSpaceCAR returns success:true only if the final
\* database.all() count equals metadata.totalEntries.
C2_SuccessOnlyWithExpectedCount ==
  (op = "restore" /\ Succeeded) => result.entriesRecovered = metadata.totalEntries

\* C3: a restore never writes into the block store or the log storage a
\* block whose bytes do not hash to the multihash of its CID.
C3_OnlyGenuineBlocksWritten ==
  /\ \A e \in blockstore : Sha256(e.bytes) = e.key.mh
  /\ \A e \in logStorage : Sha256(e.bytes) = CIDparse(e.key).mh

BackupStages ==
  <<"client", "open", "extract", "all", "pack", "upload:car", "upload:metadata">>

\* C4: in every run of backupDatabaseCAR extract, pack, upload-CAR and
\* upload-metadata happen strictly in that order; the metadata upload is
\* issued only after the CAR upload has returned, the uploaded metadata
\* holds as carCID the CID returned by the CAR upload of the run, and no
\* metadata is uploaded when the CAR upload fails.
C4_BackupStepsInOrder ==
  op = "backup" =>
    /\ IsPrefix(calls, BackupStages)
    /\ ("upload:metadata" \in Range(calls) =>
          Len(uploads) >= 1 /\ uploads[1].kind = "car")
    /\ \A i \in 1..Len(uploads) :
         uploads[i].kind = "metadata" =>
           /\ i = 2
           /\ uploads[1].kind = "car"
           /\ uploads[i].doc.carCID = uploads[1].cid
           /\ uploads[1].car = createCARFromBlocks(ExtractedBlocks(world.source))

\* C4 witness: a backup that uploaded the CAR and then the metadata.
C4_Witness ==
  op = "backup" /\ Succeeded /\ Len(uploads) = 2 /\ Cardinality(world.source) = MaxEntries

\* The log-entry blocks of the unpacked CAR: dag-cbor blocks that decode
\* to a content with sig, key and identity.
LogEntryBlocks ==
  {i \in 1..Len(blocks) :
     /\ blocks[i].cid.code = DagCborCode
     /\ DagCborDecode(blocks[i].bytes).ok
     /\ DagCborDecode(blocks[i].bytes).sig
     /\ DagCborDecode(blocks[i].bytes).key
     /\ DagCborDecode(blocks[i].bytes).identity}

\* The heads: the log-entry blocks whose base58btc CID is in the next list
\* of no log-entry block.
UnreferencedEntries ==
  {ToBase58btc(blocks[i].cid) : i \in
     {k \in LogEntryBlocks :
        \A j \in LogEntryBlocks :
          ToBase58btc(blocks[k].cid) \notin Range(DagCborDecode(blocks[j].bytes).next)}}

\* C5: the entries passed to log.joinEntry are exactly the log-entry blocks
\* of the CAR whose base58btc CID occurs in the next list of no log-entry
\* block of the CAR, each passed exactly once.
C5_JoinedAreExactlyTheHeads ==
  pc \in {"r_poll", "r_return"} =>
    /\ {joins[i].hash : i \in 1..Len(joins)} = UnreferencedEntries
    /\ Len(joins) = Cardinality(UnreferencedEntries)

\* C5 witness: two heads were passed to joinEntry and an entry they
\* reference was not.
C5_Witness ==
  /\ pc = "r_poll"
  /\ Len(joins) = 2
  /\ Cardinality(LogEntryBlocks) = 3

\* the unpacked blocks that are in the block store under their CID
InBlockstore ==
  {i \in 1..Len(blocks) :
     [key |-> blocks[i].cid, bytes |-> blocks[i].bytes] \in blockstore}

\* the unpacked blocks that are in the log storage under the base58btc CID
InLogStorageBlocks ==
  {i \in 1..Len(blocks) :
     [key |-> ToBase58btc(blocks[i].cid), bytes |-> blocks[i].bytes] \in logStorage}

\* C6 as claimed: whenever restoreFromSpaceCAR returns success:true every
\* unpacked block is in the block store under its CID and in the log storage
\* under the base58btc form of the CID.
C6_DualWriteNeverPartial ==
  (op = "restore" /\ Succeeded) =>
    /\ InBlockstore = 1..Len(blocks)
    /\ InLogStorageBlocks = 1..Len(blocks)

\* C6 amended: whenever restoreFromSpaceCAR returns success:true a put of
\* every unpacked block was made on both stores and only the puts that threw
\* are missing: the blocks absent from the block store or from the log
\* storage number at most the puts that threw, and blocksRestored is the
\* number of unpacked blocks that are in the block store.
C6_DualWriteUpToFailedPuts ==
  (op = "restore" /\ Succeeded) =>
    /\ result.blocksRestored = Cardinality(InBlockstore)
    /\ (Len(blocks) - Cardinality(InBlockstore))
         + (Len(blocks) - Cardinality(InLogStorageBlocks)) <= faults

\* C6 witness: a successful restore with a block whose put threw.
C6_Witness ==
  /\ op = "restore"
  /\ Succeeded
  /\ Len(blocks) = MaxEntries + 1
  /\ Cardinality(InBlockstore) < Len(blocks)

\* C7: if there is at least one head and joinEntry fails for every head,
\* restoreFromSpaceCAR reports failure.
C7_AllHeadsFailingFailsTheRestore ==
  (/\ op = "restore"
   /\ result.kind = "return"
   /\ Len(joins) > 0
   /\ \A i \in 1..Len(joins) : joins[i].outcome = "threw")
  => ~result.success

RestoreStageTags ==
  {"metadata", "car", "unpack", "blockstore.put", "open", "log.storage.put",
   "close", "heads", "joinEntry", "poll"}

IsRestoreStage(c) == c \in RestoreStageTags

RestoreStagesDone == SelectSeq(calls, IsRestoreStage)

PositionsOf(c) == {i \in 1..Len(calls) : calls[i] = c}

\* C8 as claimed: every log-storage write precedes the opening of the
\* database.
C8_LogStorageWrittenBeforeOpen ==
  op = "restore" =>
    \A i \in PositionsOf("log.storage.put"), j \in PositionsOf("open") : i < j

\* C8 amended: within one restore the stages run strictly in the order
\* metadata obtained, CAR downloaded, CAR unpacked, blocks put into the
\* block store, database opened, blocks put into the log storage, database
\* closed and reopened, heads rediscovered, heads joined, count polled; every
\* log-storage write follows the first open and precedes the close and
\* reopen, and every joinEntry call is made on the reopened handle.
C8_RestoreStagesInOrder ==
  op = "restore" =>
    /\ IsPrefix(RestoreStagesDone,
                <<"metadata", "car", "unpack", "blockstore.put", "open",
                  "log.storage.put", "close", "open", "heads", "joinEntry", "poll">>)
    /\ (logStorage # {} => "open" \in Range(calls))
    /\ \A i \in 1..Len(joins) : joins[i].handle = 2

\* C8 witness: a restore that went through every stage and joined heads.
C8_Witness ==
  /\ op = "restore"
  /\ Succeeded
  /\ Len(joins) = 2
  /\ Len(RestoreStagesDone) = 11

\* C9: backupDatabaseCAR, restoreFromSpaceCAR and listAvailableBackups
\* never throw, and a failed backup or restore returns
\* {success:false, error:<string>, method:"car-timestamped"}.
C9_PublicOperationsNeverThrow ==
  /\ result.kind # "throw"
  /\ (result.kind = "return" /\ op \in {"backup", "restore"} /\ ~result.success) =>
       result.method = "car-timestamped" /\ result.error # Null

\* C10: if every block-network download throws and gatewayFallback=false
\* (network enabled, no explicit timestamp), restoreFromSpaceCAR returns
\* {success:false} whose error contains "gateway fallback is disabled".
\* (Stated for the runs in which the space holds a backup, the remote
\* listing answered and a scan of the space was made.)
C10_ErrorNamesDisabledFallback ==
  (/\ op = "restore"
   /\ world.netDown
   /\ opts.useIPFSNetwork /\ opts.ipfs
   /\ ~opts.gatewayFallback
   /\ opts.timestamp = 0
   /\ Len(world.space) > 0
   /\ attempt > 0
   /\ result.kind = "return")
  => ~result.success /\ MentionsFallbackDisabled(result.error)

\* A 2xx response whose Content-Type is text/html or whose body begins with
\* <!DOCTYPE, <html or <?xml.
IsHtmlResponse(r) ==
  /\ ~r.threw
  /\ r.status \in 200..299
  /\ \/ r.contentType \in {"text/html", "text/html; charset=utf-8"}
     \/ r.body.starts \in {"<!DOCTYPE", "<html", "<?xml"}

\* C11: during the CAR download through the gateways a 2xx response that is
\* HTML by Content-Type or by the start of its body is never accepted as the
\* CAR: the request after it goes to the next gateway of the list, the body
\* accepted (the last request made) is never such a response, and when no
\* gateway yields an acceptable body the restore fails without having
\* unpacked or installed anything.
C11_HtmlNeverAcceptedAsCar ==
  op = "restore" =>
    /\ \A i \in 1..Len(fetches) :
         IsHtmlResponse(fetches[i].response) =>
           IF i < Len(fetches)
             THEN /\ fetches[i + 1].gateway = fetches[i].gateway + 1
                  /\ fetches[i + 1].attempt = 1
             ELSE /\ fetches[i].gateway = Len(Gateways)
                  /\ ~carBytes.got
    /\ (fetches # << >> /\ ~carBytes.got) =>
         /\ result = Failure(ErrCarGateways)
         /\ blocks = << >>
         /\ blockstore = {}
         /\ logStorage = {}

\* C11 witness: two gateways answered with HTML, the third served the CAR
\* and the restore went through.
C11_Witness ==
  /\ op = "restore"
  /\ Succeeded
  /\ Len(fetches) = 3
  /\ IsHtmlResponse(fetches[1].response)
  /\ IsHtmlResponse(fetches[2].response)
  /\ fetches[3].gateway = 3

\* The valid backup-metadata objects of the requested space label that the
\* remote listing holds.
ValidMetadataListed ==
  {cid \in Range(world.space) :
     /\ cid.name = "metadata"
     /\ MetadataDoc(cid.n).spaceName = SpaceName}

\* C12: when neither timestamp nor metadataCID is given a restore that goes
\* through restores the latest backup: the one with the greatest
\* metadata.timestamp among the valid backup-metadata objects of the space
\* label in the remote listing, whatever their number.
C12_RestoresTheLatestBackup ==
  (/\ op = "restore"
   /\ opts.timestamp = 0
   /\ opts.metadataCID = NoCid
   /\ Succeeded)
  => \A cid \in ValidMetadataListed :
       MetadataDoc(cid.n).timestamp <= result.backupTimestamp

\* position of an object in the remote listing
ListingIndex(cid) == CHOOSE i \in 1..Len(world.space) : world.space[i] = cid

ValidListed ==
  {cid \in Range(world.space) :
     /\ Served(cid).kind = "json"
     /\ Served(cid).doc.version # Null
     /\ Served(cid).doc.timestamp # 0
     /\ Served(cid).doc.address # Null}

Returned == {result.list[i].metadataCID : i \in 1..Len(result.list)}

\* a listing that is scanned to its end, over read paths that deliver
CompleteScan ==
  /\ op = "list"
  /\ result.kind = "return"
  /\ Len(world.space) < EnoughBackups
  /\ ~world.netDown /\ ~world.gwDown /\ opts.gatewayFallback

\* C14 as stated: a structurally valid metadata object is left out only if
\* it carries a spaceName that differs from the query label; one with no
\* spaceName is returned for every query label; every returned object that
\* has a spaceName has it equal to the query label.
C14_RejectedOnlyOnDifferingSpaceName ==
  CompleteScan =>
    \A cid \in ValidListed :
      LET d == Served(cid).doc
      IN /\ cid \notin Returned => (d.spaceName # Null /\ d.spaceName # SpaceName)
         /\ d.spaceName = Null => cid \in Returned
         /\ (cid \in Returned /\ d.spaceName # Null) => d.spaceName = SpaceName

\* the backups of the space whose listed timestamp is T
BackupsOfTimestamp(T) ==
  {n \in ListedBackups :
     /\ ObjCid("metadata", n) \in Range(world.space)
     /\ ObjCid("car", n) \in Range(world.space)
     /\ BackupTime(n) \div 1000 = T}

\* C15: a restore called with options.timestamp = T on a space that holds
\* the backup of timestamp T, the read paths being up, retrieves the
\* metadata object of that backup, and when it succeeds it has installed
\* the CAR of that backup and reports its timestamp.
C15_RestoresTheBackupOfTimestamp ==
  (/\ op = "restore"
   /\ opts.timestamp # 0
   /\ ~world.netDown /\ ~world.gwDown
   /\ pc = "done")
  => \A n \in BackupsOfTimestamp(opts.timestamp) :
       /\ metadata = MetadataDoc(n)
       /\ Succeeded => /\ carBytes.car = world.cars[n]
                       /\ result.backupTimestamp = BackupTime(n)

\* The round trip readBlocksFromCAR(createCARFromBlocks(M, r)) has been
\* made: M is bk.blocks, the CAR bk.carBytes, M' is blocks.
RoundTripDone == op = "roundtrip" /\ pc = "done"

KeysOf(m) == {m[i].key : i \in 1..Len(m)}

BytesAt(m, k) == {m[i].bytes : i \in {j \in 1..Len(m) : m[j].key = k}}

\* every key of the map is the string of a CID
KeysAreCidStrings(m) == \A k \in KeysOf(m) : k[1] \in {"b", "z"}

\* every block of M is written exactly once: the frames are the blocks of
\* M, one frame per block
WrittenOnce(m, frames) ==
  /\ Len(frames) = Len(m)
  /\ \A i \in 1..Len(m) :
       frames[i] = [cid |-> [code |-> m[i].key[2], mh |-> m[i].key[3]],
                    bytes |-> m[i].bytes]

\* C16 as stated: for any block map M whose keys are CID strings the round
\* trip returns M' with keys(M') = keys(M) and the same bytes under every
\* key, and packing writes every block of M exactly once.
C16_RoundTripOfAnyMap ==
  (RoundTripDone /\ KeysAreCidStrings(bk.blocks)) =>
    /\ KeysOf(blocks) = KeysOf(bk.blocks)
    /\ \A k \in KeysOf(bk.blocks) : BytesAt(blocks, k) = BytesAt(bk.blocks, k)
    /\ WrittenOnce(bk.blocks, bk.carBytes.frames)

\* C16 amended: for any block map M whose keys are CID strings, packing
\* writes every block of M exactly once, and the round trip returns M'
\* keyed by the base32 string of the CID of each key; when the keys of M
\* are these base32 strings, keys(M') = keys(M) and M'[k].bytes =
\* M[k].bytes for every k.
C16_RoundTripOfBase32Maps ==
  (RoundTripDone /\ KeysAreCidStrings(bk.blocks)) =>
    /\ WrittenOnce(bk.blocks, bk.carBytes.frames)
    /\ KeysOf(blocks) = {<<"b", k[2], k[3]>> : k \in KeysOf(bk.blocks)}
    /\ (\A k \in KeysOf(bk.blocks) : k[1] = "b") =>
         /\ KeysOf(blocks) = KeysOf(bk.blocks)
         /\ \A k \in KeysOf(bk.blocks) : BytesAt(blocks, k) = BytesAt(bk.blocks, k)

\* C16 witness: the round trip of a map of MaxEntries blocks under base32
\* keys.
C16_Witness ==
  /\ RoundTripDone
  /\ Len(bk.blocks) = MaxEntries
  /\ \A k \in KeysOf(bk.blocks) : k[1] = "b"
  /\ Len(blocks) = MaxEntries

\* Number of occurrences of x in a sequence.
CountOf(seq, x) == Cardinality({i \in DOMAIN seq : seq[i] = x})

\* The backup ended with the failure object of a transient upload error.
TransientUploadFailure ==
  /\ op = "backup"
  /\ pc = "done"
  /\ ~result.success
  /\ \E outcome \in UploadOutcomes :
       /\ outcome.settled = "rejected"
       /\ isRetryableError(outcome.error, DEFAULT_RETRY_CONFIG.retryableErrors)
       /\ result.error = outcome.error.message

\* C17: a transient upload failure during a backup is retried by the retry
\* harness: the backup fails on it only after the upload was attempted
\* maxRetries + 1 times.
C17_TransientUploadFailureIsRetried ==
  TransientUploadFailure
  => \/ CountOf(calls, "upload:car") = DefaultMaxRetries + 1
     \/ CountOf(calls, "upload:metadata") = DefaultMaxRetries + 1

\* C18: the error of a remote download that exceeded its timeout is classified
\* as retryable under the patterns of the configuration in use, whenever
\* retryWithBackoff raises it.
C18_DownloadTimeoutIsRetryable ==
  (op = "retry" /\ pc = "done" /\ rt.thrown = ErrDownloadTimeout)
  => isRetryableError(rt.thrown, rt.config.retryableErrors)

\* retryWithBackoff has returned or thrown.
RetryDone == op = "retry" /\ pc = "done"

\* Every call of the operation fails with an error the configuration retries.
AlwaysRetryable(state) ==
  \A i \in 1..Len(state.operation) :
     /\ state.operation[i].settled = "rejected"
     /\ isRetryableError(state.operation[i].error, state.config.retryableErrors)

\* C19: retryWithBackoff never calls the operation more than maxRetries + 1
\* times; when every call fails with a retryable error it calls it exactly
\* maxRetries + 1 times, sleeps exactly maxRetries times, and throws the error
\* of the last call.
C19_AtMostMaxRetriesPlusOneCalls ==
  op = "retry"
  => /\ rt.invocations <= rt.config.maxRetries + 1
     /\ (pc = "done" /\ AlwaysRetryable(rt))
        => /\ rt.invocations = rt.config.maxRetries + 1
           /\ Len(rt.sleeps) = rt.config.maxRetries
           /\ result.kind = "throw"
           /\ rt.thrown = OutcomeOf(rt.operation, rt.invocations).error

\* The default number of retries was used up on an operation whose first and
\* last calls failed with different transient errors, and the last was thrown.
C19_Witness ==
  /\ RetryDone
  /\ AlwaysRetryable(rt)
  /\ rt.config.maxRetries = DefaultMaxRetries
  /\ rt.invocations = DefaultMaxRetries + 1
  /\ rt.operation[1].error # rt.operation[rt.invocations].error
  /\ rt.thrown = rt.operation[rt.invocations].error

\* The first k calls of the operation fail with a retryable error and the
\* next call succeeds.
SucceedsAfter(state, k) ==
  /\ k < Len(state.operation)
  /\ \A i \in 1..k :
        /\ state.operation[i].settled = "rejected"
        /\ isRetryableError(state.operation[i].error, state.config.retryableErrors)
  /\ state.operation[k + 1].settled = "resolved"

\* C20: an operation that fails k <= maxRetries times with a retryable error
\* and then succeeds makes retryWithBackoff return its value after k + 1 calls
\* and k sleeps; an operation that succeeds at once is called once, without
\* any sleep.
C20_ReturnsAfterTransientFailures ==
  RetryDone
  => \A k \in 0..rt.config.maxRetries :
        SucceedsAfter(rt, k)
        => /\ result.kind = "return"
           /\ rt.returned = rt.operation[k + 1].value
           /\ rt.invocations = k + 1
           /\ Len(rt.sleeps) = k

\* retryWithBackoff returned the value of the third call after two transient
\* failures.
C20_Witness ==
  /\ RetryDone
  /\ SucceedsAfter(rt, 2)
  /\ rt.config.maxRetries >= 2
  /\ result.kind = "return"
  /\ rt.invocations = 3
  /\ Len(rt.sleeps) = 2

\* The first call of the operation fails with an error that matches no
\* retryable pattern of the configuration.
FirstCallTerminal(state) ==
  /\ state.operation[1].settled = "rejected"
  /\ ~isRetryableError(state.operation[1].error, state.config.retryableErrors)

\* C21: when the operation throws an error that matches no retryable pattern,
\* retryWithBackoff throws that error at once: one call of the operation, no
\* sleep, no call of onRetry, whatever maxRetries is.
C21_TerminalErrorIsRaisedAtOnce ==
  (RetryDone /\ FirstCallTerminal(rt))
  => /\ rt.invocations = 1
     /\ rt.sleeps = << >>
     /\ rt.callbacks = << >>
     /\ result.kind = "throw"
     /\ rt.thrown = rt.operation[1].error

\* A permanent failure was thrown at once although retries were allowed and a
\* callback was supplied.
C21_Witness ==
  /\ RetryDone
  /\ FirstCallTerminal(rt)
  /\ rt.config.maxRetries = DefaultMaxRetries
  /\ rt.config.onRetry # Null
  /\ rt.thrown = ErrForbidden
  /\ rt.invocations = 1

\* The call of the operation that decides the run: the first one that
\* succeeds or fails with an error that is not retried, at the latest call
\* maxRetries + 1.
DecisiveCall(state) ==
  CHOOSE i \in 1..(state.config.maxRetries + 1) :
    /\ \/ i = state.config.maxRetries + 1
       \/ OutcomeOf(state.operation, i).settled = "resolved"
       \/ ~isRetryableError(OutcomeOf(state.operation, i).error,
                            state.config.retryableErrors)
    /\ \A j \in 1..(i - 1) :
          /\ OutcomeOf(state.operation, j).settled = "rejected"
          /\ isRetryableError(OutcomeOf(state.operation, j).error,
                              state.config.retryableErrors)

DelayDone == op = "delay" /\ pc = "done"

\* min(initialDelayMs * backoffMultiplier^n, maxDelayMs)
CappedDelay(n, config) ==
  LET exponential == config.initialDelayMs * (config.backoffMultiplier ^ n)
  IN IF exponential <= config.maxDelayMs THEN exponential ELSE config.maxDelayMs

\* The configuration {initial 1000, multiplier 2, max 30000, jitter 0}.
IsR3Config(config) ==
  /\ config.initialDelayMs = 1000
  /\ config.backoffMultiplier = 2
  /\ config.maxDelayMs = 30000
  /\ config.jitterMs = 0

\* C22: calculateBackoffDelay(n, cfg) lies between the capped exponential
\* delay and that delay plus jitterMs; without jitter it is the capped delay
\* and never exceeds maxDelayMs; for {1000, 2, 30000, jitter 0} the delays of
\* attempts 0..3 are 1000, 2000, 4000, 8000.
C22_BackoffDelay ==
  DelayDone
  => /\ rt.delay >= CappedDelay(rt.attempt, rt.config)
     /\ rt.delay <= CappedDelay(rt.attempt, rt.config) + rt.config.jitterMs
     /\ rt.config.jitterMs = 0
        => /\ rt.delay = CappedDelay(rt.attempt, rt.config)
           /\ rt.delay <= rt.config.maxDelayMs
     /\ (IsR3Config(rt.config) /\ rt.attempt <= 3)
        => rt.delay = <<1000, 2000, 4000, 8000>>[rt.attempt + 1]

\* The delay of attempt 3 under {1000, 2, 30000, jitter 0} was computed.
C22_Witness ==
  /\ DelayDone
  /\ IsR3Config(rt.config)
  /\ rt.attempt = 3
  /\ rt.delay = 8000

\* isRetryableError has returned.
ClassifyDone == op = "classify" /\ pc = "done"

\* The HTTP status the error carries, 0 if none.
StatusOf(error) == IF error.status # 0 THEN error.status ELSE error.statusCode

\* A 4xx status other than 429.
IsOther4xx(error) == StatusOf(error) \in (400..499) \ {429}

\* The error denotes a network reset, a DNS failure, a timeout code, rate
\* limiting, or the status 429, 503 or 504.
DenotesTransientFault(error) ==
  \/ error.code \in {"ECONNRESET", "ENOTFOUND", "ETIMEDOUT"}
  \/ error.message \in {"ECONNRESET", "ETIMEDOUT", "Rate limit exceeded",
                        "API rate limit exceeded", "Too Many Requests"}
  \/ StatusOf(error) \in {429, 503, 504}

\* C24 as stated: every error whose status is a 4xx other than 429 is
\* terminal; null is terminal; errors denoting a network reset, a DNS failure,
\* a timeout code, rate limiting, 429, 503 or 504 are retryable.
C24_Every4xxIsTerminal ==
  ClassifyDone
  => /\ rt.lastError = NullError => rt.returned = FALSE
     /\ (rt.lastError # NullError /\ IsOther4xx(rt.lastError)) => rt.returned = FALSE
     /\ (rt.lastError # NullError /\ ~IsOther4xx(rt.lastError)
           /\ DenotesTransientFault(rt.lastError)) => rt.returned = TRUE

\* retryBatch has returned or thrown.
BatchDone == op = "batch" /\ pc = "done"

\* The element retryBatch is to report for a run: that of the decisive call of
\* its operation.
ExpectedElement(run, index) ==
  LET decisive == OutcomeOf(run.state.operation, DecisiveCall(run.state))
  IN IF decisive.settled = "resolved"
       THEN [success |-> TRUE, result |-> decisive.value, error |-> NullError,
             index |-> index]
       ELSE [success |-> FALSE, result |-> Null, error |-> decisive.error,
             index |-> index]

\* C25: retryBatch never rejects; it returns one element per operation in
\* input order, element i being {success: true, result, index: i} if the
\* operation succeeded under retryWithBackoff and {success: false, error,
\* index: i} otherwise; every operation is run to completion whatever becomes
\* of the others.
C25_BatchReportsEveryOperation ==
  op = "batch"
  => /\ result.kind # "throw"
     /\ pc = "done"
        => /\ result.kind = "return"
           /\ Len(result.list) = Len(rt.runs)
           /\ \A i \in DOMAIN rt.runs :
                 /\ result.list[i] = ExpectedElement(rt.runs[i], i - 1)
                 /\ rt.runs[i].state.invocations = DecisiveCall(rt.runs[i].state)

\* A batch of two whose first operation failed for good and whose second
\* succeeded after a retry was reported.
C25_Witness ==
  /\ BatchDone
  /\ Len(result.list) = 2
  /\ ~result.list[1].success
  /\ result.list[2].success
  /\ result.list[2].index = 1
  /\ rt.runs[2].state.invocations = 2

\* The documented statuses of an operation, in order.
DocumentedStatuses(o) ==
  IF o = "backup"
    THEN <<"creating", "uploading-blocks", "uploading-metadata", "completed">>
    ELSE <<"found", "downloading-blocks", "restoring-blocks", "completed">>

\* The history without a final `error`.
BeforeError(history) ==
  IF Len(history) > 0 /\ history[Len(history)] = "error"
    THEN SubSeq(history, 1, Len(history) - 1)
    ELSE history

NetworkCalls == {"network:probe", "network:metadata", "network:car"}

\* C27: with useIPFSNetwork = false a restore never downloads over the block
\* network, neither when probing the index nor for the metadata nor for the
\* CAR; it never fails for want of the network path, and the CAR it obtains
\* comes from the gateway chain.
C27_NoNetworkDownloadWhenDisabled ==
  (op = "restore" /\ ~opts.useIPFSNetwork)
  => /\ Range(calls) \cap NetworkCalls = {}
     /\ result.error \notin {ErrMetadataNoFallback, ErrCarNoFallback}
     /\ carBytes.got => "gateway:car" \in Range(calls)

\* A restore with the block network disabled succeeded over the gateways.
C27_Witness ==
  /\ op = "restore"
  /\ ~opts.useIPFSNetwork
  /\ pc = "done"
  /\ result.success
  /\ "gateway:car" \in Range(calls)
  /\ "scan" \in Range(calls)

\* The address of the database whose backup wrote a metadata object.
SourceAddress(cid) ==
  IF cid.name = "metadata.otherdb" THEN OtherAddress ELSE DatabaseAddress

\* The stored metadata objects whose document the restore is working from.
RestoredFrom ==
  {cid \in Range(world.space) :
     Served(cid).kind = "json" /\ Served(cid).doc = metadata}

\* C28: a backup records the address of the database it opened in the
\* metadata it uploads and returns it as databaseAddress; a restore opens,
\* reopens and returns exactly the address recorded in the metadata of the
\* backup it restores, which is the address of that backup's source.
C28_AddressIsPreserved ==
  /\ op = "backup"
     => /\ \A i \in 1..Len(uploads) :
             uploads[i].kind = "metadata"
             => uploads[i].doc.address = opts.databaseAddress
        /\ Succeeded => result.databaseAddress = opts.databaseAddress
  /\ (op = "restore" /\ db.state # "none")
     => /\ RestoredFrom # {}
        /\ \A cid \in RestoredFrom : db.address = SourceAddress(cid)
        /\ Succeeded => result.databaseAddress = db.address

\* A restore of the backup of the second database reopened and returned
\* the address of the second database.
C28_Witness ==
  /\ op = "restore"
  /\ Succeeded
  /\ db.handle = 2
  /\ db.address = OtherAddress
  /\ result.databaseAddress = OtherAddress

\* The calls that close a database or write to it, its log or its storage.
MutatingCalls == {"close", "add", "put", "del", "log:append", "storage:put"}

\* C29: a backup never closes the database it opened and never writes to it:
\* from orbitdb.open on, and when the backup has returned with success or
\* with failure, the database is open at its address and holds the entries
\* it held before the call and those the caller added meanwhile; a backup
\* that returns without an open database failed before or in orbitdb.open.
C29_BackupLeavesTheDatabaseOpenAndUntouched ==
  op = "backup"
  => /\ Range(calls) \cap MutatingCalls = {}
     /\ bk.database.state # "none"
        => /\ bk.database.state = "open"
           /\ bk.database.address = opts.databaseAddress
           /\ bk.database.entries = world.source \cup bk.callerAdded
     /\ (pc = "done" /\ bk.database.state = "none")
        => result.error \in {ErrCredentials, ErrOpen}

\* A backup of a database holding MaxEntries entries returned with success.
C29_Witness ==
  /\ op = "backup"
  /\ pc = "done"
  /\ Succeeded
  /\ bk.database.state = "open"
  /\ Cardinality(bk.database.entries) = MaxEntries
  /\ <<"open", "extract", "all">> = SubSeq(calls, 2, 4)

\* The backup index returned an empty list to a restore, and the restore
\* has acted on it.
EmptyIndexHandled ==
  /\ op = "restore"
  /\ "scan" \in Range(calls)
  /\ pc \notin {"l_pass", "l_sort", "r_listed"}
  /\ Len(backups) = 0

\* The target node is as it was before the restore: no CAR in hand, no block
\* in the block store or the log storage, no database opened.
TargetUntouched ==
  /\ carBytes = NoCar
  /\ blocks = << >>
  /\ blockstore = {}
  /\ logStorage = {}
  /\ db = NoDb
  /\ "open" \notin Range(calls)

\* C30: a restore whose backup index is empty has ended with the failure
\* object "No valid CAR backup found in space" after ListMaxRetries scans,
\* without reaching its CAR download and with the target node untouched.
C30_EmptyIndexEndsTheRestore ==
  EmptyIndexHandled
  => /\ pc = "done"
     /\ result = Failure(ErrNoBackup)
     /\ CountOf(calls, "scan") = ListMaxRetries
     /\ Range(calls) \cap {"network:car", "gateway:car"} = {}
     /\ TargetUntouched

\* C30 as stated: in addition, no CAR was downloaded at any point of the
\* restore, the scans of the backup index included.
C30_NoCarIsDownloaded ==
  EmptyIndexHandled
  => /\ pc = "done"
     /\ result = Failure(ErrNoBackup)
     /\ Range(calls) \cap {"network:car", "gateway:car", "scan:car"} = {}
     /\ TargetUntouched

\* A restore found the index empty on a space that holds a CAR object, the
\* scans having downloaded it.
C30_Witness ==
  /\ EmptyIndexHandled
  /\ result = Failure(ErrNoBackup)
  /\ ObjCid("car", 1) \in Range(world.space)
  /\ "scan:car" \in Range(calls)

\* The list a scan of the snapshot yields when every probe completes in the
\* order it was started.
SnapshotListing == ScanFrom(world.space, 0, << >>, "in-order")

\* C31: the backups a listing returns are a function of the options and of
\* the remote snapshot alone: whatever the order in which the probes of a
\* batch complete, every pass finds the list of the in-order scan, and the
\* list returned is that list sorted, so that two invocations on the same
\* snapshot return the same backups in the same order.
C31_ListingIsStable ==
  (op \in {"list", "restore"} /\ "scan" \in Range(calls))
  => /\ pc \in {"l_pass", "l_sort"} => backups = SnapshotListing
     /\ pc \notin {"l_pass", "l_sort"} => backups = SortNewestFirst(SnapshotListing)
     /\ (op = "list" /\ pc = "done") => result.list = SortNewestFirst(SnapshotListing)

\* A listing returned two backups that carry the same timestamp.
C31_Witness ==
  /\ op = "list"
  /\ pc = "done"
  /\ result.kind = "return"
  /\ \E i, j \in 1..Len(result.list) :
       /\ i < j
       /\ result.list[i].timestamp = result.list[j].timestamp
       /\ result.list[i].metadataCID # result.list[j].metadataCID

\* C32: a get of a hash that was put, with no del of it and no clear since,
\* returns the data of the latest put without contacting the remote store;
\* a put with an empty hash throws and leaves the cache as it was.
C32_ReadYourWrites ==
  op = "storage"
  => /\ (rt.last.name = "get" /\ rt.written[rt.last.hash] # Undefined)
        => /\ rt.last.returned = rt.written[rt.last.hash]
           /\ ~rt.last.contacted
     /\ (rt.last.name = "put" /\ ~Truthy(rt.last.hash))
        => /\ rt.last.thrown
           /\ rt.cache = rt.last.cacheBefore

\* C40: a get of a hash that was deleted or cleared, with no put of it
\* since, returns undefined.
C40_DeletedKeyStaysDeleted ==
  (op = "storage" /\ rt.last.name = "get" /\ rt.last.hash \in rt.removed)
  => rt.last.returned = Undefined

\* C33: the totalEntries of the metadata a backup uploads is the number of
\* log entries whose blocks are in the CAR the same backup uploaded, also
\* when the caller adds entries between the extraction and the count.
C33_EntryCountMatchesTheCar ==
  (op = "backup" /\ Len(uploads) = 2)
  => uploads[2].doc.totalEntries
       = Len(LogEntriesOf(readBlocksFromCAR(uploads[1].car)))

\* The scan passes of the backup index are over.
ScanningOver ==
  /\ op \in {"list", "restore"}
  /\ "scan" \in Range(calls)
  /\ pc # "l_pass"

\* C34: every pass after the first is preceded by a pause of 5 s, the
\* passes stop at the first one that finds a backup, and the index is empty
\* only after the first pass and ListMaxRetries retries found none.
C34_RetriesAfterAnEmptyPass ==
  ScanningOver
  => /\ CountOf(calls, RetryPause) = CountOf(calls, "scan") - 1
     /\ Len(backups) > 0 => CountOf(calls, "scan") = 1
     /\ Len(backups) = 0 => CountOf(calls, "scan") = 1 + ListMaxRetries

\* The poll loop has read the count and goes on to another pass.
PollContinues ==
  /\ op = "restore"
  /\ pc = "r_poll"
  /\ poll.passes > 0
  /\ poll.elapsed < MaxWaitTime(opts)

\* C35: the poll loop ends: every pass takes at least the poll interval and
\* no pass starts once timeout / 2 has elapsed; it goes on to another pass
\* only while the count read last is below metadata.totalEntries and has
\* not been the same, whatever its value, for 1 s or more.
C35_PollExits ==
  /\ op = "restore"
     => /\ poll.passes * PollIntervalMs <= poll.elapsed + PollIntervalMs
        /\ poll.passes > 0 => poll.readAt - StableWaitMs < MaxWaitTime(opts)
  /\ PollContinues
     => /\ poll.count < ExpectedEntries(metadata)
        /\ poll.readAt - poll.since < StableWaitMs

\* The entries of the call history that stand for a request to an HTTP
\* gateway.
GatewayCalls == {"gateway:probe", "gateway:metadata", "gateway:car"}

\* C36: with gatewayFallback = false, useIPFSNetwork = true and a block
\* network handle, a restore issues no gateway request, neither when
\* probing the index nor for the metadata nor for the CAR, whatever the
\* network downloads return or throw.
C36_NoGatewayRequestWithoutFallback ==
  (op = "restore" /\ ~opts.gatewayFallback /\ opts.useIPFSNetwork /\ opts.ipfs)
  => Range(calls) \cap GatewayCalls = {}

WaitDone == op = "wait" /\ pc = "done"

\* 2000 * 2^attempts, capped
CappedBackoff(attempts) == Min(BaseWaitMs * (2 ^ attempts), DefaultMaxDelayMs)

\* C37: the wait before a gateway is asked again after a 429 never exceeds
\* a fixed cap whatever the header says; a Retry-After of s seconds within
\* the cap is waited for s seconds; without Retry-After and
\* X-RateLimit-Reset the wait is the capped exponential backoff in the
\* attempt number.
C37_RateLimitWaitIsCapped ==
  WaitDone =>
    /\ rt.waitTime <= DefaultMaxDelayMs
    /\ LET retrySeconds == ParseInt(rt.retryAfter.chars)
       IN HeaderSet(rt.retryAfter) /\ ~isNaN(retrySeconds)
            /\ retrySeconds.value >= 0
            /\ retrySeconds.value * MsPerSecond <= DefaultMaxDelayMs
          => rt.waitTime = retrySeconds.value * MsPerSecond
    /\ ~HeaderSet(rt.retryAfter) /\ ~HeaderSet(rt.rateLimitReset)
          => rt.waitTime = CappedBackoff(rt.attempts)

GatewayPhaseRan == op = "restore" /\ "gateway:car" \in Range(calls)

\* A response the download takes as the CAR: a 2xx that is not HTML by
\* Content-Type, does not begin like markup and has at least 11 bytes.
AcceptableBody(r) ==
  /\ ~r.threw
  /\ r.status \in 200..299
  /\ ~IsHtmlResponse(r)
  /\ r.body.length >= MinCarLength

FetchesTo(g) == {i \in 1..Len(fetches) : fetches[i].gateway = g}

\* C38: the gateway phase of the CAR download makes at most 3 requests to
\* any one gateway, 429 retries and thrown requests counted together, and
\* at most 12 over the 4 gateways; the requests go through the gateways in
\* list order, a gateway being asked again only after a thrown request or a
\* 429; and the phase ends with the first acceptable body, or, no request
\* having yielded one, with the error "Could not download CAR file from any
\* gateway".
C38_GatewayPhaseIsBounded ==
  GatewayPhaseRan =>
    /\ \A g \in 1..Len(Gateways) : Cardinality(FetchesTo(g)) <= 3
    /\ Len(fetches) <= 12
    /\ fetches # << >>
    /\ fetches[1].gateway = 1 /\ fetches[1].attempt = 1
    /\ \A i \in 1..(Len(fetches) - 1) :
         LET this == fetches[i]
             next == fetches[i + 1]
             again == /\ this.response.threw \/ this.response.status = 429
                      /\ this.attempt < 3
         IN /\ ~AcceptableBody(this.response)
            /\ IF again
                 THEN next.gateway = this.gateway /\ next.attempt = this.attempt + 1
                 ELSE next.gateway = this.gateway + 1 /\ next.attempt = 1
    /\ LET last == fetches[Len(fetches)]
       IN IF AcceptableBody(last.response)
            THEN carBytes.got /\ "car" \in Range(calls)
            ELSE /\ last.gateway = Len(Gateways)
                 /\ last.attempt = 3
                      \/ ~(last.response.threw \/ last.response.status = 429)
                 /\ ~carBytes.got
                 /\ result = Failure(ErrCarGateways)

\* C38 witness: every gateway was asked three times, 429 answers and thrown
\* requests mixed, and the download failed after the twelfth request.
C38_Witness ==
  /\ GatewayPhaseRan
  /\ Len(fetches) = 12
  /\ \E i, j \in FetchesTo(1) :
       fetches[i].response.threw /\ ~fetches[j].response.threw
         /\ fetches[j].response.status = 429
  /\ result = Failure(ErrCarGateways)

\* A scan pass has run and its result has not been sorted yet.
PassOver == pc \in {"l_pass", "l_sort"} /\ attempt > 0

Started(n) == {i \in 1..n : probes[i].kind = "start"}

Completed(n) == {i \in 1..n : probes[i].kind = "end"}

\* The listed files the pass handed to checkFile, in listing order.
Probed ==
  SelectSeq(world.space,
            LAMBDA file : \E i \in Started(Len(probes)) : probes[i].file = file)

\* C39: in one scan pass of listAvailableBackups at most 10 probes are in
\* flight at any time, a probe of a later batch starts only after every
\* probe of the earlier batches has completed, each listed CID is probed at
\* most once, and a probe that fails or throws only leaves its CID out of
\* the result: every probe started completes, the pass goes on through the
\* listing until it has 20 backups, and the result holds exactly the
\* probed files that are valid backup metadata.
C39_ProbesRunInBatches ==
  PassOver =>
    /\ \A n \in 0..Len(probes) :
         Cardinality(Started(n)) - Cardinality(Completed(n)) <= 10
    /\ \A i \in Started(Len(probes)), j \in Completed(Len(probes)) :
         probes[j].batch < probes[i].batch => j < i
    /\ \A file \in Range(world.space) :
         Cardinality({i \in Started(Len(probes)) : probes[i].file = file}) <= 1
    /\ \A i \in Started(Len(probes)) :
         \E j \in Completed(Len(probes)) : j > i /\ probes[j].file = probes[i].file
    /\ Len(backups) < EnoughBackups => Probed = world.space
    /\ backups = SelectFound([k \in 1..Len(Probed) |-> CheckFile(Probed[k])])
    /\ result = NoResult

\* C39 witness: a pass over more than 10 files ran several batches, the
\* probes of a batch completing in another order than they were started;
\* some probes failed and the pass still returned the backups it found.
C39_Witness ==
  /\ PassOver
  /\ Len(world.space) > 10
  /\ \E i, j \in Completed(Len(probes)) : probes[i].batch # probes[j].batch
  /\ \E i \in 1..(Len(probes) - 1) :
       /\ probes[i].kind = "start" /\ probes[i + 1].kind = "end"
       /\ probes[i].file # probes[i + 1].file /\ probes[i].batch = probes[i + 1].batch
  /\ \E k \in 1..Len(Probed) : ~CheckFile(Probed[k]).found
  /\ backups # << >>

====
